---- MODULE Spec2Model ----
(***************************************************************************)
(* Model of the portfolio backend's request handlers.                      *)
(*                                                                         *)
(* Every HTTP request is a task that runs on one event loop and suspends   *)
(* at each `await`; the steps of a handler between two awaits are one      *)
(* action.  The document store applies each single-document operation      *)
(* atomically.                                                             *)
(*                                                                         *)
(*   Spec     event registration: POST /register/:eventId and              *)
(*            DELETE /admin/registrations/:id, interleaved at their awaits *)
(*   SpecSeq  the same handlers, one request at a time                     *)
(*   SpecContact  the contact form: POST /api/contact and                  *)
(*            PATCH /api/contact/:id, interleaved at their awaits          *)
(***************************************************************************)
EXTENDS Integers, FiniteSets, Sequences, TLC

(* ------------------------------ bounds --------------------------------- *)

\* requests that may be in flight together under Spec
MaxRequests == 3

\* requests served one after the other under SpecSeq
MaxSeqRequests == 4

\* contact requests that may be in flight together under SpecContact
MaxContactRequests == 3

ContactReqIds == 1..MaxContactRequests

ReqIds == 1..(IF MaxRequests > MaxSeqRequests THEN MaxRequests ELSE MaxSeqRequests)

\* _ids of the Event collection a request may name; "e2" is never stored
EventIds == {"e1", "e2"}

\* maxAttendees of the stored event (0 = unlimited)
Capacities == {0, 1, 2}

\* req.body.email as sent by the client
RawEmails == {"a@x.com", "A@X.com", "b@x.com", "not-an-email"}

\* req.body.email of the requests served one after the other
SeqEmails == {"a@x.com", "b@x.com"}

(* ------------------------------ state ---------------------------------- *)

VARIABLES
  events,          \* Event collection: _id -> document
  registrations,   \* EventRegistration collection: set of documents
  req,             \* request id -> the handler's position and locals
  contacts,        \* Contact collection: _id -> document
  creq,            \* contact request id -> the handler's position and locals
  now,             \* the clock `new Date()` reads
  subscriptions,   \* Subscription collection: _id -> document
  sreq,            \* subscription request id -> the handler's position and locals
  blogs,           \* Blog collection: _id -> document
  breq,            \* blog request id -> the handler's position and locals
  ereq,            \* event admin request id -> the handler's position and locals
  docs,            \* number of documents a list query matches
  lreq,            \* the list request: the handler's position and locals
  chat,            \* the chat request: the handler's position, locals and what it wrote
  upstream,        \* the body of the upstream response: lines in flight, closed, failed
  connected,       \* whether the client of the chat request is still connected
  login,           \* the admin login request: the handler's position and its answer
  catalogue,       \* the stored events or blogs a public list is asked about, by attribute
  qreq             \* the public list request with filters and its answer

registrationVars == <<events, registrations, req>>

contactVars == <<contacts, creq, now>>

subscriptionVars == <<subscriptions, sreq>>

blogVars == <<blogs, breq>>

adminVars == <<ereq>>

listVars == <<docs, lreq>>

chatVars == <<chat, upstream, connected>>

loginVars == <<login>>

catalogueVars == <<catalogue, qreq>>

vars == <<events, registrations, req, contacts, creq, now, subscriptions, sreq,
          blogs, breq, ereq,
          docs, lreq,
          chat, upstream, connected,
          login,
          catalogue, qreq>>

\* a missing Event document (findById resolves to null)
\* publishedAt is a clock reading, 0 an unset date
NoEvent ==
  [exists |-> FALSE, published |-> FALSE, maxAttendees |-> 0, currentAttendees |-> 0,
   publishedAt |-> 0, price |-> 0, isFree |-> FALSE]

\* an Event document with the schema defaults currentAttendees: 0, price: 0,
\* isFree: true
NewEvent(pub, cap) ==
  [exists |-> TRUE, published |-> pub, maxAttendees |-> cap, currentAttendees |-> 0,
   publishedAt |-> 0, price |-> 0, isFree |-> TRUE]

\* the Event schema's pre('save') hook: a document whose `published` was
\* modified to true and that has no publishedAt is stamped with the clock
PreSaveEvent(event, publishedModified, t) ==
  IF publishedModified /\ event.published /\ event.publishedAt = 0
  THEN [event EXCEPT !.publishedAt = t]
  ELSE event

\* a task that has not arrived yet
IdleReq ==
  [op |-> "idle", pc |-> "idle", eventId |-> "", email |-> "", regId |-> 0,
   event |-> NoEvent, existingRegistration |-> FALSE, code |-> 0,
   status |-> 0, message |-> "", writes |-> 0]

\* express-validator isEmail() over the modelled inputs
isEmail(m) == m \in {"a@x.com", "A@X.com", "b@x.com", "a@x.info"}

\* express-validator normalizeEmail(): lower-cases the address
normalizeEmail(m) == IF m = "A@X.com" THEN "a@x.com" ELSE m

\* the registration documents matching {eventId, email}
FindRegistrations(eventId, email) ==
  {g \in registrations : g.eventId = eventId /\ g.email = email}

\* the registration document with this _id, as a set of zero or one
FindRegistrationById(id) == {g \in registrations : g.id = id}

\* requests arrive in the order of their ids, at most `limit` of them
CanLaunch(r, limit) ==
  /\ r <= limit
  /\ req[r].pc = "idle"
  /\ \A q \in ReqIds : q < r => req[q].pc # "idle"

\* res.status(s).json({success, message}) and return
Respond(r, s, msg) ==
  req' = [req EXCEPT ![r].pc = "done", ![r].status = s, ![r].message = msg]

(* -------------------- POST /register/:eventId -------------------------- *)

\* faulty variant of IsFull: the capacity comparison written with > for >=
IsFullStrict(event) ==
  event.maxAttendees > 0 /\ event.currentAttendees > event.maxAttendees

\* event.maxAttendees > 0 && event.currentAttendees >= event.maxAttendees
IsFull(event) ==
  event.maxAttendees > 0 /\ event.currentAttendees >= event.maxAttendees

\* validation, then `await Event.findById(eventId)` and the two checks on it
RegisterFindEvent(r, eventId, rawEmail, limit) ==
  /\ CanLaunch(r, limit)
  /\ UNCHANGED <<events, registrations, contactVars, subscriptionVars, blogVars, adminVars, listVars, chatVars, loginVars, catalogueVars>>
  /\ LET event == events[eventId]
         start == [IdleReq EXCEPT !.op = "register", !.eventId = eventId,
                                  !.email = normalizeEmail(rawEmail)]
     IN IF ~isEmail(rawEmail)
        THEN req' = [req EXCEPT ![r] =
               [start EXCEPT !.pc = "done", !.status = 400,
                             !.message = "Valid email is required"]]
        ELSE IF ~event.exists
        THEN req' = [req EXCEPT ![r] =
               [start EXCEPT !.pc = "done", !.status = 404,
                             !.message = "Event not found"]]
        ELSE IF ~event.published
        THEN req' = [req EXCEPT ![r] =
               [start EXCEPT !.event = event, !.pc = "done", !.status = 400,
                             !.message = "Event is not available for registration"]]
        ELSE req' = [req EXCEPT ![r] =
               [start EXCEPT !.event = event, !.pc = "findOne"]]

\* `await EventRegistration.findOne({ eventId, email })`, then the duplicate
\* check and the capacity check on the event read earlier
RegisterFindOne(r) ==
  /\ req[r].op = "register" /\ req[r].pc = "findOne"
  /\ UNCHANGED <<events, registrations, contactVars, subscriptionVars, blogVars, adminVars, listVars, chatVars, loginVars, catalogueVars>>
  /\ LET found == FindRegistrations(req[r].eventId, req[r].email) # {}
     IN IF found
        THEN req' = [req EXCEPT ![r].existingRegistration = TRUE,
                                ![r].pc = "done", ![r].status = 400,
                                ![r].message = "You are already registered for this event"]
        ELSE IF IsFull(req[r].event)
        THEN Respond(r, 400, "Event is full")
        ELSE req' = [req EXCEPT ![r].pc = "saveRegistration"]

\* faulty variant of DuplicateKey: the collection without its unique index
NoUniqueIndex(eventId, email) == FALSE

\* the unique index {eventId: 1, email: 1}: an insert of a second document
\* with the same pair fails with E11000
DuplicateKey(eventId, email) == FindRegistrations(eventId, email) # {}

\* `await registration.save()`; E11000 is answered 400 by the catch block
RegisterSaveRegistration(r) ==
  /\ req[r].op = "register" /\ req[r].pc = "saveRegistration"
  /\ UNCHANGED <<events, contactVars, subscriptionVars, blogVars, adminVars, listVars, chatVars, loginVars, catalogueVars>>
  /\ IF DuplicateKey(req[r].eventId, req[r].email)
     THEN /\ UNCHANGED registrations
          /\ req' = [req EXCEPT ![r].code = 11000,
                                ![r].pc = "done", ![r].status = 400,
                                ![r].message = "You are already registered for this event"]
     ELSE /\ registrations' = registrations \cup
               {[id |-> r, eventId |-> req[r].eventId, email |-> req[r].email]}
          /\ req' = [req EXCEPT ![r].pc = "saveEvent", ![r].writes = @ + 1]

\* faulty variant of SavedAttendees: the counter bumped in the store with $inc
SavedAttendeesInc(r, stored) == stored + 1

\* the value `event.currentAttendees += 1; await event.save()` stores: the
\* count this request read, plus one
SavedAttendees(r, stored) == req[r].event.currentAttendees + 1

\* `event.currentAttendees += 1; await event.save()`, then the 201 response
RegisterSaveEvent(r) ==
  /\ req[r].op = "register" /\ req[r].pc = "saveEvent"
  /\ UNCHANGED <<registrations, contactVars, subscriptionVars, blogVars, adminVars, listVars, chatVars, loginVars, catalogueVars>>
  /\ LET e == req[r].eventId
     IN events' = [events EXCEPT ![e].currentAttendees =
                     SavedAttendees(r, events[e].currentAttendees)]
  /\ req' = [req EXCEPT ![r].pc = "done", ![r].status = 201,
                        ![r].message = "Registration successful!",
                        ![r].writes = @ + 1]

(* ---------------- DELETE /admin/registrations/:id ---------------------- *)

\* `await EventRegistration.findById(id)` and the 404 check
DeleteFindRegistration(r, id, limit) ==
  /\ CanLaunch(r, limit)
  /\ UNCHANGED <<events, registrations, contactVars, subscriptionVars, blogVars, adminVars, listVars, chatVars, loginVars, catalogueVars>>
  /\ LET found == FindRegistrationById(id)
         start == [IdleReq EXCEPT !.op = "delete", !.regId = id]
     IN IF found = {}
        THEN req' = [req EXCEPT ![r] =
               [start EXCEPT !.pc = "done", !.status = 404,
                             !.message = "Registration not found"]]
        ELSE req' = [req EXCEPT ![r] =
               [start EXCEPT !.eventId = (CHOOSE g \in found : TRUE).eventId,
                             !.pc = "decrement"]]

\* faulty variant of DecrementedAttendees: the delete handler without its $inc
DecrementedAttendeesNone(stored) == stored

\* the value { $inc: { currentAttendees: -1 } } stores
DecrementedAttendees(stored) == stored - 1

\* `await Event.findByIdAndUpdate(registration.eventId, { $inc: ... })`
DeleteDecrementEvent(r) ==
  /\ req[r].op = "delete" /\ req[r].pc = "decrement"
  /\ UNCHANGED <<registrations, contactVars, subscriptionVars, blogVars, adminVars, listVars, chatVars, loginVars, catalogueVars>>
  /\ LET e == req[r].eventId
     IN IF events[e].exists
        THEN events' = [events EXCEPT ![e].currentAttendees =
                          DecrementedAttendees(events[e].currentAttendees)]
        ELSE UNCHANGED events
  /\ req' = [req EXCEPT ![r].pc = "deleteRegistration", ![r].writes = @ + 1]

\* `await EventRegistration.findByIdAndDelete(id)`, then the 200 response
DeleteRemoveRegistration(r) ==
  /\ req[r].op = "delete" /\ req[r].pc = "deleteRegistration"
  /\ UNCHANGED <<events, contactVars, subscriptionVars, blogVars, adminVars, listVars, chatVars, loginVars, catalogueVars>>
  /\ registrations' = registrations \ FindRegistrationById(req[r].regId)
  /\ req' = [req EXCEPT ![r].pc = "done", ![r].status = 200,
                        ![r].message = "Registration deleted successfully",
                        ![r].writes = @ + 1]

(* ------------------------- Contact collection -------------------------- *)

\* contactSchema.status enum
ContactStatuses == {"pending", "review", "worked", "done", "rejected"}

\* contactSchema.priority enum
ContactPriorities == {"low", "medium", "high", "urgent"}

\* req.body of POST /api/contact ("" = the field is absent)
CreateBodies ==
  { [name |-> "Ann", email |-> "a@x.com",      subject |-> "Hi", message |-> "Hello", status |-> ""],
    [name |-> "Ann", email |-> "a@x.com",      subject |-> "Hi", message |-> "Hello", status |-> "done"],
    [name |-> "Ann", email |-> "",             subject |-> "Hi", message |-> "Hello", status |-> ""],
    [name |-> "",    email |-> "not-an-email", subject |-> "",   message |-> "",      status |-> ""],
    [name |-> "Ann", email |-> "a@x.info",     subject |-> "Hi", message |-> "Hello", status |-> ""] }

\* req.body of PATCH /api/contact/:id ("" = the field is absent)
UpdateBodies ==
  { [status |-> "review",   adminNotes |-> "",       priority |-> ""],
    [status |-> "done",     adminNotes |-> "",       priority |-> "high"],
    [status |-> "",         adminNotes |-> "called", priority |-> ""],
    [status |-> "archived", adminNotes |-> "",       priority |-> ""] }

\* req.params.id of PATCH /api/contact/:id
TargetIds == {1, 2}

\* a missing Contact document; dates are clock readings, 0 = unset
NoContact ==
  [exists |-> FALSE, email |-> "", status |-> "", priority |-> "", adminNotes |-> "",
   emailSent |-> FALSE, emailSentAt |-> 0, respondedAt |-> 0, completedAt |-> 0,
   createdAt |-> 0]

\* a contact task that has not arrived yet
IdleContactReq ==
  [op |-> "idle", pc |-> "idle", id |-> 0,
   form |-> [name |-> "", email |-> "", subject |-> "", message |-> "", status |-> ""],
   body |-> [status |-> "", adminNotes |-> "", priority |-> ""],
   errors |-> {}, contact |-> NoContact, loaded |-> NoContact, mails |-> 0,
   status |-> 0, message |-> ""]

\* the _id given to the next Contact document
NextContactId == Cardinality({c \in ContactReqIds : contacts[c].exists}) + 1

\* contact requests arrive in the order of their ids
CanLaunchContact(r) ==
  /\ creq[r].pc = "idle"
  /\ \A q \in ContactReqIds : q < r => creq[q].pc # "idle"

\* faulty variant of validationResult: the route without its isEmail() check
validationResultNoEmail(body) ==
  {f \in {"name", "subject", "message"} : body[f] = ""}

\* the route's validators: notEmpty() on name, subject, message; isEmail()
validationResult(body) ==
  {f \in {"name", "subject", "message"} : body[f] = ""}
    \cup (IF isEmail(body.email) THEN {} ELSE {"email"})

\* `new Contact(req.body)`: every schema path the body carries is taken from
\* it, the others get their defaults
NewContact(body, t) ==
  [exists |-> TRUE, email |-> normalizeEmail(body.email),
   status |-> IF body.status = "" THEN "pending" ELSE body.status,
   priority |-> "medium", adminNotes |-> "",
   emailSent |-> FALSE, emailSentAt |-> 0, respondedAt |-> 0, completedAt |-> 0,
   createdAt |-> t]

\* the schema's validators run by save(): the email `match` pattern (a last
\* label of two or three characters) and the two enums
SchemaValid(doc) ==
  /\ doc.email \in {"a@x.com", "b@x.com"}
  /\ doc.status \in ContactStatuses
  /\ doc.priority \in ContactPriorities

\* save() of a loaded document: the paths changed since it was loaded are
\* $set on the stored document
SaveModified(stored, doc, loaded) ==
  [f \in DOMAIN stored |-> IF doc[f] # loaded[f] THEN doc[f] ELSE stored[f]]

\* res.status(s).json({success, message, ...}) and return
RespondContact(r, s, msg) ==
  creq' = [creq EXCEPT ![r].pc = "done", ![r].status = s, ![r].message = msg]

(* ------------------------- POST /api/contact --------------------------- *)

\* validationResult, `new Contact(req.body)` and the first `await contact.save()`
CreateContactSave(r, body) ==
  /\ CanLaunchContact(r)
  /\ now' = now + 1
  /\ UNCHANGED <<registrationVars, subscriptionVars, blogVars, adminVars, listVars, chatVars, loginVars, catalogueVars>>
  /\ LET errors  == validationResult(body)
         contact == NewContact(body, now')
         start   == [IdleContactReq EXCEPT !.op = "create", !.form = body,
                                           !.errors = errors]
     IN IF errors # {}
        THEN /\ UNCHANGED contacts
             /\ creq' = [creq EXCEPT ![r] =
                  [start EXCEPT !.pc = "done", !.status = 400, !.message = "errors"]]
        ELSE IF ~SchemaValid(contact)
        THEN /\ UNCHANGED contacts
             /\ creq' = [creq EXCEPT ![r] =
                  [start EXCEPT !.pc = "done", !.status = 500,
                                !.message = "Failed to submit contact"]]
        ELSE /\ contacts' = [contacts EXCEPT ![NextContactId] = contact]
             /\ creq' = [creq EXCEPT ![r] =
                  [start EXCEPT !.pc = "notify", !.id = NextContactId,
                                !.contact = contact, !.loaded = contact]]

\* `await emailService.sendContactNotification(contact)`: it resolves, or it
\* rethrows the transport's error into the handler's catch block
CreateContactNotify(r, ok) ==
  /\ creq[r].op = "create" /\ creq[r].pc = "notify"
  /\ UNCHANGED <<contacts, now, registrationVars, subscriptionVars, blogVars, adminVars, listVars, chatVars, loginVars, catalogueVars>>
  /\ IF ok
     THEN creq' = [creq EXCEPT ![r].pc = "confirm", ![r].mails = @ + 1]
     ELSE RespondContact(r, 500, "Failed to submit contact")

\* `await emailService.sendContactConfirmation(contact)`, likewise
CreateContactConfirm(r, ok) ==
  /\ creq[r].op = "create" /\ creq[r].pc = "confirm"
  /\ UNCHANGED <<contacts, now, registrationVars, subscriptionVars, blogVars, adminVars, listVars, chatVars, loginVars, catalogueVars>>
  /\ IF ok
     THEN creq' = [creq EXCEPT ![r].pc = "markSent", ![r].mails = @ + 1]
     ELSE RespondContact(r, 500, "Failed to submit contact")

\* emailSent = true, emailSentAt = new Date(), the second `await contact.save()`
\* and the 201 response that carries the document
CreateContactMarkSent(r) ==
  /\ creq[r].op = "create" /\ creq[r].pc = "markSent"
  /\ UNCHANGED <<now, registrationVars, subscriptionVars, blogVars, adminVars, listVars, chatVars, loginVars, catalogueVars>>
  /\ LET contact == [creq[r].contact EXCEPT !.emailSent = TRUE, !.emailSentAt = now]
     IN /\ contacts' = [contacts EXCEPT ![creq[r].id] =
             SaveModified(@, contact, creq[r].loaded)]
        /\ creq' = [creq EXCEPT ![r].contact = contact, ![r].pc = "done",
                                ![r].status = 201,
                                ![r].message = "Contact submitted successfully"]

(* ------------------------ PATCH /api/contact/:id ----------------------- *)

\* faulty variant of SetStatus: the handler going through contactSchema.methods
\* .updateStatus, which stamps respondedAt / completedAt with new Date()
SetStatusStamped(contact, newStatus, t) ==
  [contact EXCEPT !.status = newStatus,
                  !.respondedAt = IF newStatus = "review" THEN t ELSE @,
                  !.completedAt = IF newStatus = "done" THEN t ELSE @]

\* `contact.status = req.body.status` at clock reading t
SetStatus(contact, newStatus, t) == [contact EXCEPT !.status = newStatus]

\* `await Contact.findById(id)`, the 404 check and the three assignments
UpdateContactFind(r, id, body) ==
  /\ CanLaunchContact(r)
  /\ now' = now + 1
  /\ UNCHANGED <<contacts, registrationVars, subscriptionVars, blogVars, adminVars, listVars, chatVars, loginVars, catalogueVars>>
  /\ LET start == [IdleContactReq EXCEPT !.op = "update", !.id = id, !.body = body]
         found == IF id \in ContactReqIds THEN contacts[id] ELSE NoContact
         c1 == IF body.status # "" THEN SetStatus(found, body.status, now') ELSE found
         c2 == IF body.adminNotes # "" THEN [c1 EXCEPT !.adminNotes = body.adminNotes] ELSE c1
         c3 == IF body.priority # "" THEN [c2 EXCEPT !.priority = body.priority] ELSE c2
     IN IF ~found.exists
        THEN creq' = [creq EXCEPT ![r] =
               [start EXCEPT !.pc = "done", !.status = 404,
                             !.message = "Contact not found"]]
        ELSE creq' = [creq EXCEPT ![r] =
               [start EXCEPT !.pc = "save", !.contact = c3, !.loaded = found]]

\* `await contact.save()`: a validation error is answered 500, otherwise the
\* changed paths are stored and the document is returned
UpdateContactSave(r) ==
  /\ creq[r].op = "update" /\ creq[r].pc = "save"
  /\ UNCHANGED <<now, registrationVars, subscriptionVars, blogVars, adminVars, listVars, chatVars, loginVars, catalogueVars>>
  /\ IF ~SchemaValid(creq[r].contact)
     THEN /\ UNCHANGED contacts
          /\ RespondContact(r, 500, "Failed to update contact")
     ELSE /\ contacts' = [contacts EXCEPT ![creq[r].id] =
               SaveModified(@, creq[r].contact, creq[r].loaded)]
          /\ RespondContact(r, 200, "Contact updated")

(* ------------------------- subscription model -------------------------- *)

\* subscription requests the model serves
MaxSubscriptionRequests == 3

SubReqIds == 1..MaxSubscriptionRequests

\* req.body.email of POST /api/subscription
SubscribeEmails == {"a@x.com", "A@X.com", "b@x.com", "not-an-email"}

\* req.body.reason of the unsubscribe route
Reasons == {"", "too many emails"}

\* req.params.id of the unsubscribe, reactivate and delete routes
SubTargetIds == {1, 2}

\* a missing Subscription document; unsubscribedAt 0 stands for an unset date
NoSubscription ==
  [exists |-> FALSE, id |-> 0, email |-> "", status |-> "",
   unsubscribedAt |-> 0, unsubscribedReason |-> ""]

IdleSubReq ==
  [op |-> "idle", pc |-> "idle", id |-> 0, email |-> "",
   subscription |-> NoSubscription, loaded |-> NoSubscription, isNew |-> FALSE,
   mails |-> 0, writes |-> 0, status |-> 0, message |-> ""]

\* subscription requests arrive in the order of their ids
CanLaunchSub(r) ==
  /\ sreq[r].pc = "idle"
  /\ \A q \in SubReqIds : q < r => sreq[q].pc # "idle"

\* String.prototype.toLowerCase over the modelled addresses, also the schema's
\* `lowercase: true` setter and its pre('save') hook
toLowerCase(m) == IF m = "A@X.com" THEN "a@x.com" ELSE m

\* Subscription.findOne({email}): the stored document with this address
FindSubscription(email) ==
  IF \E k \in SubReqIds : subscriptions[k].exists /\ subscriptions[k].email = email
  THEN subscriptions[CHOOSE k \in SubReqIds :
                       subscriptions[k].exists /\ subscriptions[k].email = email]
  ELSE NoSubscription

\* `new Subscription({email, ...})` with the schema's setters and defaults; the
\* document's _id is drawn fresh, here the id of the request that builds it
NewSubscription(id, rawEmail) ==
  [exists |-> TRUE, id |-> id, email |-> toLowerCase(rawEmail), status |-> "active",
   unsubscribedAt |-> 0, unsubscribedReason |-> ""]

\* faulty variant of DuplicateEmailKey: the schema without `unique: true`
NoUniqueEmailIndex(email) == FALSE

\* the unique index on email refuses a second document with the same address
DuplicateEmailKey(email) ==
  \E k \in SubReqIds : subscriptions[k].exists /\ subscriptions[k].email = email

\* faulty variant of LookupKey: the address is looked up as it was typed
LookupKeyRaw(rawEmail) == rawEmail

\* the key of the lookup, `req.body.email.toLowerCase()`
LookupKey(rawEmail) == toLowerCase(rawEmail)

\* `subscription && subscription.status === 'active'`
AlreadySubscribed(subscription) ==
  subscription.exists /\ subscription.status = "active"

\* faulty variant of Reactivated: the date of the unsubscription is kept
ReactivatedKeepDate(subscription) ==
  [subscription EXCEPT !.status = "active", !.unsubscribedReason = ""]

\* status = 'active'; unsubscribedAt = undefined; unsubscribedReason = ''
Reactivated(subscription) ==
  [subscription EXCEPT !.status = "active", !.unsubscribedAt = 0,
                       !.unsubscribedReason = ""]

\* status = 'unsubscribed'; unsubscribedAt = new Date(); unsubscribedReason = reason
Unsubscribed(subscription, reason, t) ==
  [subscription EXCEPT !.status = "unsubscribed", !.unsubscribedAt = t,
                       !.unsubscribedReason = reason]

\* res.status(s).json({success, message, ...}) and return
RespondSub(r, s, msg) ==
  sreq' = [sreq EXCEPT ![r].pc = "done", ![r].status = s, ![r].message = msg]

(* ----------------------- POST /api/subscription ------------------------ *)

\* validationResult, `await Subscription.findOne(...)` and the branch on it
SubscribeFindOne(r, rawEmail) ==
  /\ CanLaunchSub(r)
  /\ UNCHANGED <<subscriptions, now, registrationVars, contacts, creq, blogVars, adminVars, listVars, chatVars, loginVars, catalogueVars>>
  /\ LET start == [IdleSubReq EXCEPT !.op = "subscribe", !.email = rawEmail]
         found == FindSubscription(LookupKey(rawEmail))
     IN IF ~isEmail(rawEmail)
        THEN sreq' = [sreq EXCEPT ![r] =
               [start EXCEPT !.pc = "done", !.status = 400, !.message = "errors"]]
        ELSE IF AlreadySubscribed(found)
        THEN sreq' = [sreq EXCEPT ![r] =
               [start EXCEPT !.loaded = found, !.pc = "done", !.status = 409,
                             !.message = "Already subscribed"]]
        ELSE IF ~found.exists
        THEN sreq' = [sreq EXCEPT ![r] =
               [start EXCEPT !.subscription = NewSubscription(r, rawEmail),
                             !.isNew = TRUE, !.pc = "save"]]
        ELSE sreq' = [sreq EXCEPT ![r] =
               [start EXCEPT !.loaded = found, !.subscription = Reactivated(found),
                             !.id = found.id, !.pc = "save"]]

\* `await subscription.save()` of createSubscription: an insert for a new
\* document, an update of the modified paths for a loaded one.  Saving a
\* document that was deleted meanwhile changes nothing and, depending on the
\* Mongoose release, either raises or resolves.
SubscribeSave(r) ==
  /\ sreq[r].op = "subscribe" /\ sreq[r].pc = "save"
  /\ UNCHANGED <<now, registrationVars, contacts, creq, blogVars, adminVars, listVars, chatVars, loginVars, catalogueVars>>
  /\ LET doc == sreq[r].subscription
     IN IF sreq[r].isNew
        THEN IF DuplicateEmailKey(doc.email)
             THEN /\ UNCHANGED subscriptions
                  /\ RespondSub(r, 500, "Failed to subscribe")
             ELSE /\ subscriptions' = [subscriptions EXCEPT ![doc.id] = doc]
                  /\ sreq' = [sreq EXCEPT ![r].pc = "welcome", ![r].id = doc.id,
                                          ![r].writes = 1]
        ELSE IF ~subscriptions[doc.id].exists
             THEN /\ UNCHANGED subscriptions
                  /\ \/ RespondSub(r, 500, "Failed to subscribe")
                     \/ sreq' = [sreq EXCEPT ![r].pc = "welcome"]
             ELSE /\ subscriptions' = [subscriptions EXCEPT ![doc.id] =
                        SaveModified(@, doc, sreq[r].loaded)]
                  /\ sreq' = [sreq EXCEPT ![r].pc = "welcome", ![r].writes = 1]

\* `await emailService.sendSubscriptionWelcome(subscription)` and the response
SubscribeWelcome(r, ok) ==
  /\ sreq[r].op = "subscribe" /\ sreq[r].pc = "welcome"
  /\ UNCHANGED <<subscriptions, now, registrationVars, contacts, creq, blogVars, adminVars, listVars, chatVars, loginVars, catalogueVars>>
  /\ IF ok
     THEN sreq' = [sreq EXCEPT ![r].pc = "done", ![r].status = 201,
                               ![r].message = "Subscribed successfully",
                               ![r].mails = 1]
     ELSE RespondSub(r, 500, "Failed to subscribe")

(* ------------- unsubscribe, reactivate, delete by id ------------------- *)

\* `await Subscription.findById(id)` and the body of the unsubscribe method
UnsubscribeFind(r, id, reason) ==
  /\ CanLaunchSub(r)
  /\ UNCHANGED <<subscriptions, registrationVars, contacts, creq, blogVars, adminVars, listVars, chatVars, loginVars, catalogueVars>>
  /\ LET start == [IdleSubReq EXCEPT !.op = "unsubscribe", !.id = id]
         found == subscriptions[id]
     IN IF ~found.exists
        THEN /\ UNCHANGED now
             /\ sreq' = [sreq EXCEPT ![r] =
                  [start EXCEPT !.pc = "done", !.status = 404,
                                !.message = "Subscription not found"]]
        ELSE /\ now' = now + 1
             /\ sreq' = [sreq EXCEPT ![r] =
                  [start EXCEPT !.loaded = found, !.pc = "save",
                                !.subscription = Unsubscribed(found, reason, now + 1)]]

\* `await Subscription.findById(id)` and the body of the reactivate method
ReactivateFind(r, id) ==
  /\ CanLaunchSub(r)
  /\ UNCHANGED <<subscriptions, now, registrationVars, contacts, creq, blogVars, adminVars, listVars, chatVars, loginVars, catalogueVars>>
  /\ LET start == [IdleSubReq EXCEPT !.op = "reactivate", !.id = id]
         found == subscriptions[id]
     IN IF ~found.exists
        THEN sreq' = [sreq EXCEPT ![r] =
               [start EXCEPT !.pc = "done", !.status = 404,
                             !.message = "Subscription not found"]]
        ELSE sreq' = [sreq EXCEPT ![r] =
               [start EXCEPT !.loaded = found, !.pc = "save",
                             !.subscription = Reactivated(found)]]

\* `return this.save()` of the two methods and the handler's response
MethodSave(r) ==
  /\ sreq[r].op \in {"unsubscribe", "reactivate"} /\ sreq[r].pc = "save"
  /\ UNCHANGED <<now, registrationVars, contacts, creq, blogVars, adminVars, listVars, chatVars, loginVars, catalogueVars>>
  /\ LET doc  == sreq[r].subscription
         msg  == IF sreq[r].op = "unsubscribe" THEN "Unsubscribed"
                 ELSE "Subscription reactivated"
         fail == IF sreq[r].op = "unsubscribe" THEN "Failed to unsubscribe"
                 ELSE "Failed to reactivate"
     IN IF ~subscriptions[doc.id].exists
        THEN /\ UNCHANGED subscriptions
             /\ \/ RespondSub(r, 500, fail)
                \/ RespondSub(r, 200, msg)
        ELSE /\ subscriptions' = [subscriptions EXCEPT ![doc.id] =
                   SaveModified(@, doc, sreq[r].loaded)]
             /\ sreq' = [sreq EXCEPT ![r].pc = "done", ![r].status = 200,
                                     ![r].message = msg, ![r].writes = 1]

\* `await Subscription.findByIdAndDelete(id)` and the response
DeleteSubscription(r, id) ==
  /\ CanLaunchSub(r)
  /\ UNCHANGED <<now, registrationVars, contacts, creq, blogVars, adminVars, listVars, chatVars, loginVars, catalogueVars>>
  /\ LET start == [IdleSubReq EXCEPT !.op = "delete", !.id = id, !.pc = "done"]
     IN IF ~subscriptions[id].exists
        THEN /\ UNCHANGED subscriptions
             /\ sreq' = [sreq EXCEPT ![r] =
                  [start EXCEPT !.status = 404, !.message = "Subscription not found"]]
        ELSE /\ subscriptions' = [subscriptions EXCEPT ![id] = NoSubscription]
             /\ sreq' = [sreq EXCEPT ![r] =
                  [start EXCEPT !.loaded = subscriptions[id], !.status = 200,
                                !.message = "Subscription deleted", !.writes = 1]]

(* ------------------------------ blog model ----------------------------- *)

\* blog requests the model serves
MaxBlogRequests == 3

BlogReqIds == 1..MaxBlogRequests

\* _ids of Blog documents: 1 is the stored blog, request r creates r + 1
BlogIds == 1..(MaxBlogRequests + 1)

\* strings of titles and slugs are sequences of characters
Letters == {"a", "b"}

EmptyString == << >>

\* the titles and slugs of the requests
TitleAB == <<"A", " ", "b">>

TitleDotted == <<"A", ".", "b", "!">>

SlugAB == <<"a", "-", "b">>

SlugPlain == <<"a", "b">>

\* String.prototype.toLowerCase, one character
LowerChar(c) == IF c = "A" THEN "a" ELSE IF c = "B" THEN "b" ELSE c

\* String.prototype.toLowerCase, also the schema's `lowercase: true` setter
LowerCase(str) == [i \in 1..Len(str) |-> LowerChar(str[i])]

\* the characters that `[^a-z0-9\s-]` does not match
KeptChar(c) == c \in Letters \/ c = " " \/ c = "-"

\* .replace(/[^a-z0-9\s-]/g, ''): the other characters are deleted
RemoveSpecial(str) == SelectSeq(str, KeptChar)

\* .replace(/x+/g, '-') for a single character x: every maximal run of x
\* becomes one hyphen
RECURSIVE RunsToHyphen(_, _)
RunsToHyphen(str, x) ==
  IF str = << >> THEN << >>
  ELSE IF Head(str) # x THEN <<Head(str)>> \o RunsToHyphen(Tail(str), x)
  ELSE IF Len(str) > 1 /\ str[2] = x THEN RunsToHyphen(Tail(str), x)
  ELSE <<"-">> \o RunsToHyphen(Tail(str), x)

\* .replace(/^-+/, '')
RECURSIVE TrimLeft(_)
TrimLeft(str) ==
  IF str # << >> /\ Head(str) = "-" THEN TrimLeft(Tail(str)) ELSE str

\* .replace(/-+$/, '')
RECURSIVE TrimRight(_)
TrimRight(str) ==
  IF str # << >> /\ str[Len(str)] = "-"
  THEN TrimRight(SubSeq(str, 1, Len(str) - 1)) ELSE str

\* the slug the pre('save') hook derives from a title
Slugify(title) ==
  TrimRight(TrimLeft(RunsToHyphen(RunsToHyphen(RemoveSpecial(LowerCase(title)),
                                               " "), "-")))

\* the schema's `match: /^[a-z0-9-]+$/` on slug
SlugMatches(slug) ==
  slug # << >> /\ \A i \in 1..Len(slug) : slug[i] \in Letters \cup {"-"}

\* a missing Blog document
NoBlog ==
  [exists |-> FALSE, id |-> 0, title |-> EmptyString, slug |-> EmptyString,
   published |-> FALSE, views |-> 0, likes |-> 0]

\* a request body: `fields` are the keys it carries
Body(fields, title, slug, published, views, likes) ==
  [fields |-> fields, title |-> title, slug |-> slug, published |-> published,
   views |-> views, likes |-> likes]

\* req.body of POST /api/blog
BlogCreateBodies ==
  { Body({"title"}, TitleAB, EmptyString, FALSE, 0, 0),
    Body({"title", "slug"}, TitleDotted, SlugAB, FALSE, 0, 0),
    Body({"title", "slug", "views", "likes"}, TitleAB, SlugPlain, FALSE, 5, 5),
    Body({"slug"}, EmptyString, SlugPlain, FALSE, 0, 0) }

\* req.body of PUT /api/blog/:id
BlogUpdateBodies ==
  { Body({"title", "views", "likes"}, TitleDotted, EmptyString, FALSE, 5, 5),
    Body({"slug"}, EmptyString, SlugAB, FALSE, 0, 0),
    Body({"slug"}, EmptyString, SlugPlain, FALSE, 0, 0) }

\* req.params.id of the update and like routes
BlogTargetIds == {1, 2}

\* req.params.slug of GET /api/blog/slug/:slug
BlogSlugs == {SlugAB, SlugPlain}

IdleBlogReq ==
  [op |-> "idle", pc |-> "idle", id |-> 0, slug |-> EmptyString,
   body |-> Body({}, EmptyString, EmptyString, FALSE, 0, 0),
   blog |-> NoBlog, loaded |-> NoBlog, isNew |-> FALSE, collided |-> FALSE,
   writes |-> 0, status |-> 0, message |-> ""]

\* blog requests arrive in the order of their ids
CanLaunchBlog(r) ==
  /\ breq[r].pc = "idle"
  /\ \A q \in BlogReqIds : q < r => breq[q].pc # "idle"

\* res.status(s).json({success, message, ...}) and return
RespondBlog(r, s, msg) ==
  breq' = [breq EXCEPT ![r].pc = "done", ![r].status = s, ![r].message = msg]

\* a body value as the schema's setters store it (`lowercase: true` on slug)
Cast(f, value) == IF f = "slug" THEN LowerCase(value) ELSE value

\* `new Blog(req.body)`: the body's fields, the schema's defaults for the rest
NewBlog(id, body) ==
  [exists    |-> TRUE,
   id        |-> id,
   title     |-> IF "title" \in body.fields THEN body.title ELSE EmptyString,
   slug      |-> IF "slug" \in body.fields THEN Cast("slug", body.slug) ELSE EmptyString,
   published |-> IF "published" \in body.fields THEN body.published ELSE TRUE,
   views     |-> IF "views" \in body.fields THEN body.views ELSE 0,
   likes     |-> IF "likes" \in body.fields THEN body.likes ELSE 0]

\* faulty variant of AssignBody: a new title renews the slug
AssignBodyReslug(blog, body) ==
  [f \in DOMAIN blog |->
     IF f \in body.fields THEN Cast(f, body[f])
     ELSE IF f = "slug" /\ "title" \in body.fields THEN Slugify(body.title)
     ELSE blog[f]]

\* `Object.assign(blog, req.body)`
AssignBody(blog, body) ==
  [f \in DOMAIN blog |-> IF f \in body.fields THEN Cast(f, body[f]) ELSE blog[f]]

\* the schema's validators, which save() runs before the pre('save') hooks:
\* title and slug required, slug matching /^[a-z0-9-]+$/
BlogValid(doc) == doc.title # EmptyString /\ SlugMatches(doc.slug)

\* the pre('save') hook: a slug for the document that has none
PreSave(doc) ==
  IF doc.slug = EmptyString /\ doc.title # EmptyString
  THEN [doc EXCEPT !.slug = Slugify(doc.title)]
  ELSE doc

\* Blog.findOne({slug}) with the ids in `except` left out
FindBlogBySlug(slug, except) ==
  LET found == {k \in BlogIds \ except : blogs[k].exists /\ blogs[k].slug = slug}
  IN IF found = {} THEN NoBlog ELSE blogs[CHOOSE k \in found : TRUE]

\* the unique index on slug refuses a write that gives document id a slug
\* another document has
DuplicateSlugKey(id, slug) ==
  \E k \in BlogIds \ {id} : blogs[k].exists /\ blogs[k].slug = slug

(* --------------------------- POST /api/blog ---------------------------- *)

\* validationResult, the lookup of req.body.slug and `new Blog(req.body)`
CreateBlogCheck(r, body) ==
  /\ CanLaunchBlog(r)
  /\ UNCHANGED <<blogs, registrationVars, contactVars, subscriptionVars, adminVars, listVars, chatVars, loginVars, catalogueVars>>
  /\ LET start == [IdleBlogReq EXCEPT !.op = "create", !.body = body]
     IN IF "title" \notin body.fields \/ body.title = EmptyString
        THEN breq' = [breq EXCEPT ![r] =
               [start EXCEPT !.pc = "done", !.status = 400, !.message = "errors"]]
        ELSE IF /\ "slug" \in body.fields /\ body.slug # EmptyString
                /\ FindBlogBySlug(body.slug, {}).exists
        THEN breq' = [breq EXCEPT ![r] =
               [start EXCEPT !.pc = "done", !.status = 400, !.collided = TRUE,
                             !.message = "Blog with this slug already exists"]]
        ELSE breq' = [breq EXCEPT ![r] =
               [start EXCEPT !.pc = "save", !.isNew = TRUE,
                             !.blog = NewBlog(r + 1, body)]]

\* `await blog.save()` of the create handler, its response and its catch
CreateBlogSave(r) ==
  /\ breq[r].op = "create" /\ breq[r].pc = "save"
  /\ UNCHANGED <<registrationVars, contactVars, subscriptionVars, adminVars, listVars, chatVars, loginVars, catalogueVars>>
  /\ LET doc == breq[r].blog
     IN IF ~BlogValid(doc)
        THEN /\ UNCHANGED blogs
             /\ RespondBlog(r, 500, "Failed to create blog")
        ELSE IF DuplicateSlugKey(doc.id, PreSave(doc).slug)
        THEN /\ UNCHANGED blogs
             /\ breq' = [breq EXCEPT ![r].pc = "done", ![r].status = 400,
                           ![r].collided = TRUE,
                           ![r].message = "Blog with this slug already exists"]
        ELSE /\ blogs' = [blogs EXCEPT ![doc.id] = PreSave(doc)]
             /\ breq' = [breq EXCEPT ![r].pc = "done", ![r].status = 201,
                           ![r].blog = PreSave(doc), ![r].id = doc.id,
                           ![r].writes = 1,
                           ![r].message = "Blog created successfully"]

(* -------------------------- PUT /api/blog/:id -------------------------- *)

\* `await Blog.findById(id)` and the test that guards the slug lookup
UpdateBlogFind(r, id, body) ==
  /\ CanLaunchBlog(r)
  /\ UNCHANGED <<blogs, registrationVars, contactVars, subscriptionVars, adminVars, listVars, chatVars, loginVars, catalogueVars>>
  /\ LET start == [IdleBlogReq EXCEPT !.op = "update", !.id = id, !.body = body]
         found == blogs[id]
     IN IF ~found.exists
        THEN breq' = [breq EXCEPT ![r] =
               [start EXCEPT !.pc = "done", !.status = 404,
                             !.message = "Blog not found"]]
        ELSE breq' = [breq EXCEPT ![r] =
               [start EXCEPT !.loaded = found, !.blog = found,
                  !.pc = IF /\ "slug" \in body.fields /\ body.slug # EmptyString
                            /\ body.slug # found.slug
                         THEN "checkSlug" ELSE "save"]]

\* `await Blog.findOne({slug, _id: {$ne: id}})`
UpdateBlogCheckSlug(r) ==
  /\ breq[r].op = "update" /\ breq[r].pc = "checkSlug"
  /\ UNCHANGED <<blogs, registrationVars, contactVars, subscriptionVars, adminVars, listVars, chatVars, loginVars, catalogueVars>>
  /\ IF FindBlogBySlug(breq[r].body.slug, {breq[r].id}).exists
     THEN breq' = [breq EXCEPT ![r].pc = "done", ![r].status = 400,
                     ![r].collided = TRUE,
                     ![r].message = "Blog with this slug already exists"]
     ELSE breq' = [breq EXCEPT ![r].pc = "save"]

\* `Object.assign(blog, req.body); await blog.save()`, the response, the catch
UpdateBlogSave(r) ==
  /\ breq[r].op = "update" /\ breq[r].pc = "save"
  /\ UNCHANGED <<registrationVars, contactVars, subscriptionVars, adminVars, listVars, chatVars, loginVars, catalogueVars>>
  /\ LET doc == AssignBody(breq[r].blog, breq[r].body)
     IN IF ~BlogValid(doc)
        THEN /\ UNCHANGED blogs
             /\ RespondBlog(r, 500, "Failed to update blog")
        ELSE IF /\ PreSave(doc).slug # breq[r].loaded.slug
                /\ DuplicateSlugKey(doc.id, PreSave(doc).slug)
        THEN /\ UNCHANGED blogs
             /\ breq' = [breq EXCEPT ![r].pc = "done", ![r].status = 500,
                           ![r].collided = TRUE,
                           ![r].message = "Failed to update blog"]
        ELSE /\ blogs' = [blogs EXCEPT ![doc.id] =
                   SaveModified(@, PreSave(doc), breq[r].loaded)]
             /\ breq' = [breq EXCEPT ![r].pc = "done", ![r].status = 200,
                           ![r].blog = PreSave(doc), ![r].writes = 1,
                           ![r].message = "Blog updated successfully"]

(* ------------- GET /api/blog/slug/:slug, POST /api/blog/:id/like -------- *)

\* `await Blog.findOne({slug, published: true})`
GetBySlugFind(r, slug) ==
  /\ CanLaunchBlog(r)
  /\ UNCHANGED <<blogs, registrationVars, contactVars, subscriptionVars, adminVars, listVars, chatVars, loginVars, catalogueVars>>
  /\ LET start == [IdleBlogReq EXCEPT !.op = "view", !.slug = slug]
         found == FindBlogBySlug(slug, {})
     IN IF ~(found.exists /\ found.published)
        THEN breq' = [breq EXCEPT ![r] =
               [start EXCEPT !.pc = "done", !.status = 404,
                             !.message = "Blog not found"]]
        ELSE breq' = [breq EXCEPT ![r] =
               [start EXCEPT !.id = found.id, !.loaded = found, !.blog = found,
                             !.pc = "save"]]

\* blogSchema.methods.incrementViews: `this.views += 1` on the loaded document
IncrementedViews(blog) == [blog EXCEPT !.views = @ + 1]

\* blogSchema.methods.incrementLikes: `this.likes += 1` on the loaded document
IncrementedLikes(blog) == [blog EXCEPT !.likes = @ + 1]

\* `return this.save()` of incrementViews, which writes the path it modified,
\* and the response
GetBySlugSave(r) ==
  /\ breq[r].op = "view" /\ breq[r].pc = "save"
  /\ UNCHANGED <<registrationVars, contactVars, subscriptionVars, adminVars, listVars, chatVars, loginVars, catalogueVars>>
  /\ blogs' = [blogs EXCEPT ![breq[r].id] =
        SaveModified(@, IncrementedViews(breq[r].blog), breq[r].loaded)]
  /\ breq' = [breq EXCEPT ![r].pc = "done", ![r].status = 200, ![r].writes = 1,
                ![r].blog = IncrementedViews(breq[r].blog), ![r].message = "blog"]

\* GET /api/blog/:id: validationResult, `await Blog.findById(id)` and the
\* response; the route has no authenticateToken
GetById(r, id) ==
  /\ CanLaunchBlog(r)
  /\ UNCHANGED <<blogs, registrationVars, contactVars, subscriptionVars, adminVars, listVars, chatVars, loginVars, catalogueVars>>
  /\ LET start == [IdleBlogReq EXCEPT !.op = "getById", !.id = id, !.pc = "done"]
         found == blogs[id]
     IN IF ~found.exists
        THEN breq' = [breq EXCEPT ![r] =
               [start EXCEPT !.status = 404, !.message = "Blog not found"]]
        ELSE breq' = [breq EXCEPT ![r] =
               [start EXCEPT !.loaded = found, !.blog = found, !.status = 200,
                             !.message = "blog"]]

\* `await Blog.findById(id)` of the like route
LikeFind(r, id) ==
  /\ CanLaunchBlog(r)
  /\ UNCHANGED <<blogs, registrationVars, contactVars, subscriptionVars, adminVars, listVars, chatVars, loginVars, catalogueVars>>
  /\ LET start == [IdleBlogReq EXCEPT !.op = "like", !.id = id]
         found == blogs[id]
     IN IF ~found.exists
        THEN breq' = [breq EXCEPT ![r] =
               [start EXCEPT !.pc = "done", !.status = 404,
                             !.message = "Blog not found"]]
        ELSE breq' = [breq EXCEPT ![r] =
               [start EXCEPT !.loaded = found, !.blog = found, !.pc = "save"]]

\* `return this.save()` of incrementLikes and the response
LikeSave(r) ==
  /\ breq[r].op = "like" /\ breq[r].pc = "save"
  /\ UNCHANGED <<registrationVars, contactVars, subscriptionVars, adminVars, listVars, chatVars, loginVars, catalogueVars>>
  /\ blogs' = [blogs EXCEPT ![breq[r].id] =
        SaveModified(@, IncrementedLikes(breq[r].blog), breq[r].loaded)]
  /\ breq' = [breq EXCEPT ![r].pc = "done", ![r].status = 200, ![r].writes = 1,
                ![r].blog = IncrementedLikes(breq[r].blog),
                ![r].message = "Blog liked successfully"]

(* --------------------------- event admin model ------------------------- *)

\* event admin requests the model serves
MaxAdminRequests == 3

AdminReqIds == 1..MaxAdminRequests

\* req.body of POST /admin and PUT /admin/:id: `fields` are the keys it carries
EmptyEventBody ==
  [fields |-> {}, published |-> FALSE, maxAttendees |-> 0, price |-> 0,
   isFree |-> FALSE, currentAttendees |-> 0]

EventBody(fields, published, maxAttendees) ==
  [EmptyEventBody EXCEPT !.fields = fields, !.published = published,
                         !.maxAttendees = maxAttendees]

\* a body that carries a price
PriceBody(price) == [EmptyEventBody EXCEPT !.fields = {"price"}, !.price = price]

\* a body that carries isFree and no price
IsFreeBody(isFree) == [EmptyEventBody EXCEPT !.fields = {"isFree"}, !.isFree = isFree]

\* the prices of the requests
Prices == {0, 10}

\* `if (eventData.price !== undefined) eventData.isFree = eventData.price === 0`
DeriveIsFree(body) ==
  IF "price" \in body.fields
  THEN [body EXCEPT !.fields = @ \cup {"isFree"}, !.isFree = (body.price = 0)]
  ELSE body

\* req.body of POST /admin; validateEvent makes every field optional
EventCreateBodies ==
  { EventBody({}, FALSE, 0), EventBody({"published"}, TRUE, 0), IsFreeBody(FALSE) }
    \cup {PriceBody(p) : p \in Prices}

\* req.body of PUT /admin/:id
EventUpdateBodies ==
  { EventBody({"published"}, TRUE, 0), EventBody({"published"}, FALSE, 0),
    EventBody({"maxAttendees"}, FALSE, 1), IsFreeBody(TRUE) }
    \cup {PriceBody(p) : p \in Prices}

IdleAdminReq ==
  [op |-> "idle", pc |-> "idle", eventId |-> "", body |-> EventBody({}, FALSE, 0),
   event |-> NoEvent, loaded |-> NoEvent, writes |-> 0, status |-> 0, message |-> ""]

\* admin requests arrive in the order of their ids
CanLaunchAdmin(r) ==
  /\ ereq[r].pc = "idle"
  /\ \A q \in AdminReqIds : q < r => ereq[q].pc # "idle"

\* res.status(s).json({success, message, ...}) and return
RespondAdmin(r, s, msg) ==
  ereq' = [ereq EXCEPT ![r].pc = "done", ![r].status = s, ![r].message = msg]

\* `new Event(eventData)`: the body's fields, the schema's defaults for the rest
EventFromBody(body) ==
  [exists           |-> TRUE,
   published        |-> IF "published" \in body.fields THEN body.published ELSE FALSE,
   maxAttendees     |-> IF "maxAttendees" \in body.fields THEN body.maxAttendees ELSE 0,
   currentAttendees |-> IF "currentAttendees" \in body.fields
                        THEN body.currentAttendees ELSE 0,
   publishedAt      |-> 0,
   price            |-> IF "price" \in body.fields THEN body.price ELSE 0,
   isFree           |-> IF "isFree" \in body.fields THEN body.isFree ELSE TRUE]

\* the update document of findByIdAndUpdate applied to a stored event: the
\* body's fields are set, no pre('save') hook runs
UpdatedEvent(event, body) ==
  [f \in DOMAIN event |-> IF f \in body.fields THEN body[f] ELSE event[f]]

\* POST /admin: `new Event(eventData)`, `await event.save()` with its hook, the
\* response and the catch.  The requests carry one title, so one slug: the
\* unique index on slug refuses the second event.
CreateEvent(r, body) ==
  /\ CanLaunchAdmin(r)
  /\ UNCHANGED <<registrations, req, contacts, creq, subscriptionVars, blogVars, listVars, chatVars, loginVars, catalogueVars>>
  /\ LET start == [IdleAdminReq EXCEPT !.op = "create", !.eventId = "e2",
                                       !.body = body, !.pc = "done"]
         doc   == PreSaveEvent(EventFromBody(DeriveIsFree(body)),
                               "published" \in body.fields, now + 1)
     IN IF events["e2"].exists
        THEN /\ UNCHANGED <<events, now>>
             /\ ereq' = [ereq EXCEPT ![r] =
                  [start EXCEPT !.status = 400,
                                !.message = "An event with this slug already exists"]]
        ELSE /\ events' = [events EXCEPT !["e2"] = doc]
             /\ now' = now + 1
             /\ ereq' = [ereq EXCEPT ![r] =
                  [start EXCEPT !.event = doc, !.writes = 1, !.status = 201,
                                !.message = "Event created successfully"]]

\* PUT /admin/:id: `await Event.findByIdAndUpdate(id, updateData, ...)`
UpdateEvent(r, id, body) ==
  /\ CanLaunchAdmin(r)
  /\ UNCHANGED <<registrations, req, contacts, creq, now, subscriptionVars, blogVars, listVars, chatVars, loginVars, catalogueVars>>
  /\ LET start == [IdleAdminReq EXCEPT !.op = "update", !.eventId = id,
                                       !.body = body, !.pc = "done"]
     IN IF ~events[id].exists
        THEN /\ UNCHANGED events
             /\ ereq' = [ereq EXCEPT ![r] =
                  [start EXCEPT !.status = 404, !.message = "Event not found"]]
        ELSE /\ events' = [events EXCEPT ![id] = UpdatedEvent(@, DeriveIsFree(body))]
             /\ ereq' = [ereq EXCEPT ![r] =
                  [start EXCEPT !.loaded = events[id],
                                !.event = UpdatedEvent(events[id], DeriveIsFree(body)),
                                !.writes = 1, !.status = 200,
                                !.message = "Event updated successfully"]]

\* a body that carries currentAttendees
AttendeesBody(n) ==
  [EmptyEventBody EXCEPT !.fields = {"currentAttendees"}, !.currentAttendees = n]

\* the counters an admin may put in the body of an update
AttendeesInBody == {0, 2}

\* DELETE /admin/:id: `await Event.findByIdAndDelete(id)`; the registrations
\* of the event are left in their collection
DeleteEvent(r, id) ==
  /\ CanLaunchAdmin(r)
  /\ UNCHANGED <<registrations, req, contacts, creq, now, subscriptionVars, blogVars, listVars, chatVars, loginVars, catalogueVars>>
  /\ LET start == [IdleAdminReq EXCEPT !.op = "delete", !.eventId = id, !.pc = "done"]
     IN IF ~events[id].exists
        THEN /\ UNCHANGED events
             /\ ereq' = [ereq EXCEPT ![r] =
                  [start EXCEPT !.status = 404, !.message = "Event not found"]]
        ELSE /\ events' = [events EXCEPT ![id] = NoEvent]
             /\ ereq' = [ereq EXCEPT ![r] =
                  [start EXCEPT !.loaded = events[id], !.writes = 1, !.status = 200,
                                !.message = "Event deleted successfully"]]

\* PATCH /admin/registrations/:id with a valid status:
\* `EventRegistration.findByIdAndUpdate(id, {status})` sets the status alone,
\* the registration keeps its event and its email and no event is written
UpdateRegistrationStatus(r, id) ==
  /\ CanLaunchAdmin(r)
  /\ UNCHANGED <<events, registrations, req, contacts, creq, now, subscriptionVars, blogVars, listVars, chatVars, loginVars, catalogueVars>>
  /\ LET start == [IdleAdminReq EXCEPT !.op = "registrationStatus", !.pc = "done"]
     IN IF FindRegistrationById(id) = {}
        THEN ereq' = [ereq EXCEPT ![r] =
               [start EXCEPT !.status = 404, !.message = "Registration not found"]]
        ELSE ereq' = [ereq EXCEPT ![r] =
               [start EXCEPT !.status = 200,
                             !.message = "Registration updated successfully"]]

\* `event.published = !event.published` and the stamp of a first publication
Toggled(event, t) ==
  [event EXCEPT !.published = ~@,
                !.publishedAt = IF ~event.published /\ @ = 0 THEN t ELSE @]

\* PATCH /admin/:id/toggle-publish: `await Event.findById(id)` and the
\* assignments before the save
TogglePublishFind(r, id) ==
  /\ CanLaunchAdmin(r)
  /\ UNCHANGED <<events, registrations, req, contacts, creq, subscriptionVars, blogVars, listVars, chatVars, loginVars, catalogueVars>>
  /\ LET start == [IdleAdminReq EXCEPT !.op = "toggle", !.eventId = id]
         found == events[id]
     IN IF ~found.exists
        THEN /\ UNCHANGED now
             /\ ereq' = [ereq EXCEPT ![r] =
                  [start EXCEPT !.pc = "done", !.status = 404,
                                !.message = "Event not found"]]
        ELSE /\ now' = now + 1
             /\ ereq' = [ereq EXCEPT ![r] =
                  [start EXCEPT !.loaded = found, !.event = Toggled(found, now + 1),
                                !.pc = "save"]]

\* `await event.save()` of toggle-publish, with the hook, and the response
TogglePublishSave(r) ==
  /\ ereq[r].op = "toggle" /\ ereq[r].pc = "save"
  /\ UNCHANGED <<registrations, req, contacts, creq, now, subscriptionVars, blogVars, listVars, chatVars, loginVars, catalogueVars>>
  /\ LET doc == PreSaveEvent(ereq[r].event, TRUE, now)
     IN /\ events' = [events EXCEPT ![ereq[r].eventId] =
               SaveModified(@, doc, ereq[r].loaded)]
        /\ ereq' = [ereq EXCEPT ![r].pc = "done", ![r].status = 200,
                      ![r].event = doc, ![r].writes = 1,
                      ![r].message = IF doc.published
                                     THEN "Event published successfully"
                                     ELSE "Event unpublished successfully"]

(* ----------------------------- paginated lists ------------------------- *)

\* the largest number of documents a list query matches
MaxDocs == 16

\* the list routes: GET /api/events, GET /api/events/admin/all, GET /api/blog
ListRoutes == {"events", "adminEvents", "blogs"}

\* a query parameter: given or not, and its integer value
Param(given, value) == [given |-> given, value |-> value]

\* req.query.page and req.query.limit of the requests
PageParams == {Param(FALSE, 0)} \cup {Param(TRUE, v) : v \in {0, 1, 2, 3}}

LimitParams == {Param(FALSE, 0)} \cup {Param(TRUE, v) : v \in {0, 1, 2, 10, 50, 51}}

\* the `max` of the limit validators
MaxLimit == 50

\* the limit a route takes when the query gives none
DefaultLimit(route) == IF route = "adminEvents" THEN 20 ELSE 10

\* query('page').optional().isInt({min: 1}), query('limit').optional().isInt({min: 1, max: 50})
ListQueryValid(page, limit) ==
  /\ page.given => page.value >= 1
  /\ limit.given => (limit.value >= 1 /\ limit.value <= MaxLimit)

\* `parseInt(req.query.x) || d`
ParseOr(param, d) == IF param.given /\ param.value # 0 THEN param.value ELSE d

\* faulty variant of Skip: the first page skips a page
SkipPage(page, limit) == page * limit

\* `(page - 1) * limit`
Skip(page, limit) == (page - 1) * limit

\* find(query).sort(...).skip(skip).limit(limit) over n matching documents in
\* their sort order: the positions returned
FindPage(n, skip, limit) == {i \in 1..n : i > skip /\ i <= skip + limit}

\* Math.ceil(total / limit)
Ceil(total, limit) == (total + limit - 1) \div limit

IdleListReq ==
  [pc |-> "idle", route |-> "", page |-> Param(FALSE, 0), limit |-> Param(FALSE, 0),
   pageNo |-> 0, limitNo |-> 0, items |-> {}, total |-> 0, pages |-> 0,
   status |-> 0, message |-> ""]

\* validationResult, the parsing of page and limit and `await Model.find(...)`
ListFind(route, page, limit) ==
  /\ lreq.pc = "idle"
  /\ UNCHANGED <<docs, registrationVars, contactVars, subscriptionVars, blogVars, adminVars, chatVars, loginVars, catalogueVars>>
  /\ LET start == [IdleListReq EXCEPT !.route = route, !.page = page, !.limit = limit]
         p == ParseOr(page, 1)
         l == ParseOr(limit, DefaultLimit(route))
     IN IF ~ListQueryValid(page, limit)
        THEN lreq' = [start EXCEPT !.pc = "done", !.status = 400, !.message = "errors"]
        ELSE lreq' = [start EXCEPT !.pc = "count", !.pageNo = p, !.limitNo = l,
                                   !.items = FindPage(docs, Skip(p, l), l)]

\* `await Model.countDocuments(query)` and the response with its pagination
ListCount ==
  /\ lreq.pc = "count"
  /\ UNCHANGED <<docs, registrationVars, contactVars, subscriptionVars, blogVars, adminVars, chatVars, loginVars, catalogueVars>>
  /\ lreq' = [lreq EXCEPT !.pc = "done", !.status = 200, !.total = docs,
                          !.pages = Ceil(docs, lreq.limitNo)]

(* ------------------------------ AI chat stream ------------------------- *)

\* lines the upstream sends on one response body
MaxLines == 3

\* a line of the upstream body: a delta with content, the completion sentinel
\* `data: [DONE]`, or a data line that is not JSON
Lines == {"content", "[DONE]", "malformed"}

\* how `await fetch(...)` comes back: a streaming 200, a non-success status
\* whose text can or cannot be read, a response without body, or a rejection
FetchOutcomes == {"ok", "notOk", "notOkTextFails", "noBody", "throws"}

\* req.body.message present or not, the API key configured or not
ChatInputs == {"valid", "noMessage", "noKey"}

IdleChat ==
  [pc |-> "idle", sse |-> FALSE, events |-> << >>, ended |-> FALSE,
   json |-> 0, status |-> 0, reads |-> 0, sawDone |-> FALSE, outcome |-> ""]

IdleUpstream == [lines |-> << >>, sent |-> 0, closed |-> FALSE, failed |-> FALSE]

\* res.write(`data: ${JSON.stringify(event)}\n\n`)
Write(c, event) == [c EXCEPT !.events = Append(@, event)]

\* res.status(s).json({success: false, error}) and the end of the handler
RespondChatJson(c, s) ==
  [c EXCEPT !.pc = "done", !.json = @ + 1, !.status = s, !.ended = TRUE]

\* the body of the `for (const line of lines)` loop for one data line
RelayLine(c, line) ==
  IF line = "[DONE]" THEN Write(c, "done")
  ELSE IF line = "content" THEN Write(c, "content")
  ELSE c

\* the input checks and the event-stream headers
ChatStart(input) ==
  /\ chat.pc = "idle"
  /\ UNCHANGED <<upstream, connected, registrationVars, contactVars, subscriptionVars, blogVars, adminVars, listVars, loginVars, catalogueVars>>
  /\ chat' = IF input = "noMessage" THEN RespondChatJson(chat, 400)
             ELSE IF input = "noKey" THEN RespondChatJson(chat, 500)
             ELSE [chat EXCEPT !.pc = "fetch", !.sse = TRUE]

\* `await fetch(OPENROUTER_API_URL, ...)` and the branches on the response
ChatFetch(outcome) ==
  /\ chat.pc = "fetch"
  /\ UNCHANGED <<upstream, connected, registrationVars, contactVars, subscriptionVars, blogVars, adminVars, listVars, loginVars, catalogueVars>>
  /\ LET c == [chat EXCEPT !.outcome = outcome]
     IN chat' =
          IF outcome = "ok" THEN [c EXCEPT !.pc = "read"]
          ELSE IF outcome \in {"notOk", "noBody"}
          THEN [Write(c, "error") EXCEPT !.pc = "done", !.ended = TRUE]
          ELSE RespondChatJson(c, 500)

\* the upstream puts one more line on the body
UpstreamSend(line) ==
  /\ chat.pc = "read"
  /\ ~upstream.closed /\ ~upstream.failed /\ upstream.sent < MaxLines
  /\ UNCHANGED <<chat, connected, registrationVars, contactVars, subscriptionVars, blogVars, adminVars, listVars, loginVars, catalogueVars>>
  /\ upstream' = [upstream EXCEPT !.lines = Append(@, line), !.sent = @ + 1]

\* the upstream ends the body
UpstreamClose ==
  /\ chat.pc = "read" /\ ~upstream.closed /\ ~upstream.failed
  /\ UNCHANGED <<chat, connected, registrationVars, contactVars, subscriptionVars, blogVars, adminVars, listVars, loginVars, catalogueVars>>
  /\ upstream' = [upstream EXCEPT !.closed = TRUE]

\* the connection to the upstream breaks
UpstreamFail ==
  /\ chat.pc = "read" /\ ~upstream.closed /\ ~upstream.failed
  /\ UNCHANGED <<chat, connected, registrationVars, contactVars, subscriptionVars, blogVars, adminVars, listVars, loginVars, catalogueVars>>
  /\ upstream' = [upstream EXCEPT !.failed = TRUE]

\* the client goes away while the request is being served
ClientDisconnect ==
  /\ chat.pc \in {"fetch", "read"} /\ connected
  /\ UNCHANGED <<chat, upstream, registrationVars, contactVars, subscriptionVars, blogVars, adminVars, listVars, loginVars, catalogueVars>>
  /\ connected' = FALSE

\* `await reader.read()` resolving with a chunk, here one line, and its relay
ChatRead ==
  /\ chat.pc = "read" /\ upstream.lines # << >>
  /\ UNCHANGED <<connected, registrationVars, contactVars, subscriptionVars, blogVars, adminVars, listVars, loginVars, catalogueVars>>
  /\ upstream' = [upstream EXCEPT !.lines = Tail(@)]
  /\ chat' = [RelayLine(chat, Head(upstream.lines)) EXCEPT
                !.reads = @ + 1,
                !.sawDone = @ \/ Head(upstream.lines) = "[DONE]"]

\* `await reader.read()` resolving with done: the final event and res.end()
ChatReadEnd ==
  /\ chat.pc = "read" /\ upstream.lines = << >> /\ upstream.closed
  /\ UNCHANGED <<upstream, connected, registrationVars, contactVars, subscriptionVars, blogVars, adminVars, listVars, loginVars, catalogueVars>>
  /\ chat' = [Write(chat, "done") EXCEPT !.pc = "done", !.ended = TRUE, !.reads = @ + 1]

\* `await reader.read()` rejecting: the error event and res.end()
ChatReadFail ==
  /\ chat.pc = "read" /\ upstream.lines = << >> /\ upstream.failed
  /\ UNCHANGED <<upstream, connected, registrationVars, contactVars, subscriptionVars, blogVars, adminVars, listVars, loginVars, catalogueVars>>
  /\ chat' = [Write(chat, "error") EXCEPT !.pc = "done", !.ended = TRUE, !.reads = @ + 1]

(* ------------------------------ admin login ---------------------------- *)

\* what a login request meets: a body the validators refuse, a wrong username,
\* no password configured, a wrong password, bcrypt.compare rejecting,
\* jwt.sign throwing (JWT_SECRET not set), or a good login
LoginInputs ==
  {"invalid", "badUser", "noConfig", "badPassword", "compareThrows",
   "signThrows", "ok"}

\* answers counts the responses sent; envelope tells whether the response is
\* a JSON body with a boolean `success`
IdleLogin == [pc |-> "idle", input |-> "", answers |-> 0, envelope |-> FALSE, status |-> 0]

\* res.status(s).json({success: ..., ...})
RespondLogin(l, s) ==
  [l EXCEPT !.pc = "done", !.answers = @ + 1, !.envelope = TRUE, !.status = s]

\* POST /api/admin/login. The handler is an async function without try/catch:
\* an exception in it rejects the promise the router drops (forwarded = FALSE,
\* the request stays open) or hands to the error middleware (forwarded = TRUE),
\* depending on the router the build installs.
Login(input, forwarded) ==
  /\ login.pc = "idle"
  /\ UNCHANGED <<registrationVars, contactVars, subscriptionVars, blogVars, adminVars, listVars, chatVars, catalogueVars>>
  /\ LET l == [login EXCEPT !.input = input]
     IN login' =
          IF input = "invalid" THEN RespondLogin(l, 400)
          ELSE IF input \in {"badUser", "badPassword"} THEN RespondLogin(l, 401)
          ELSE IF input = "noConfig" THEN RespondLogin(l, 500)
          ELSE IF input = "ok" THEN RespondLogin(l, 200)
          ELSE IF forwarded THEN RespondLogin(l, 500)
          ELSE [l EXCEPT !.pc = "rejected"]

(* ----------------------- public lists with filters --------------------- *)

\* documents in the collection a filtered list is asked about
MaxItems == 2

ItemIds == 1..MaxItems

\* a stored event or blog by the attributes the filters look at: `matches`
\* tells whether the search term of the requests matches it (title or
\* description for an event, the text index for a blog), `upcoming` whether
\* its date is not before the time of the request
Items ==
  [published : BOOLEAN, eventType : {"webinar", "workshop"}, category : {"tech"},
   featured : BOOLEAN, upcoming : BOOLEAN, matches : BOOLEAN]

\* req.query of a public list: "" stands for a parameter that is not supplied
Queries ==
  [route : {"events", "blogs"}, eventType : {"", "webinar"},
   category : {"", "life"}, featured : {"", "true", "false"},
   when : {"", "upcoming", "past"}, search : {"", "term"}]

IdleQueryReq ==
  [pc |-> "idle", query |-> [route |-> "", eventType |-> "", category |-> "",
                             featured |-> "", when |-> "", search |-> ""],
   items |-> {}, total |-> 0, status |-> 0]

\* `query` of the public event list applied to one document
EventQuery(item, q) ==
  /\ item.published
  /\ q.eventType # "" => item.eventType = q.eventType
  /\ q.category # "" => item.category = q.category
  /\ q.featured # "" => item.featured = (q.featured = "true")
  /\ q.when = "upcoming" => item.upcoming
  /\ q.when = "past" => ~item.upcoming

\* `query` of the public blog list applied to one document
BlogQuery(item, q) ==
  /\ item.published
  /\ q.category # "" => item.category = q.category
  /\ q.featured # "" => item.featured = (q.featured = "true")

\* `searchQuery` of both lists applied to one document
SearchQuery(item) == item.published /\ item.matches

\* the documents find() selects: by searchQuery when req.query.search is
\* supplied, by query otherwise
Selected(q) ==
  {i \in ItemIds :
     IF q.search # "" THEN SearchQuery(catalogue[i])
     ELSE IF q.route = "events" THEN EventQuery(catalogue[i], q)
     ELSE BlogQuery(catalogue[i], q)}

\* GET /api/events and GET /api/blog with filters, first page: the find, the
\* countDocuments with the same filter and the response
FilteredList(q) ==
  /\ qreq.pc = "idle"
  /\ UNCHANGED <<catalogue, registrationVars, contactVars, subscriptionVars, blogVars, adminVars, listVars, chatVars, loginVars>>
  /\ qreq' = [pc |-> "done", query |-> q, items |-> Selected(q),
              total |-> Cardinality(Selected(q)), status |-> 200]

(* --------------------------- specifications ---------------------------- *)

\* an empty Contact collection and no contact request yet
InitContacts ==
  /\ contacts = [c \in ContactReqIds |-> NoContact]
  /\ creq = [r \in ContactReqIds |-> IdleContactReq]
  /\ now = 0

\* an empty Subscription collection and no subscription request yet
InitSubscriptions ==
  /\ subscriptions = [k \in SubReqIds |-> NoSubscription]
  /\ sreq = [r \in SubReqIds |-> IdleSubReq]

\* no blog and no blog request yet
InitBlogs ==
  /\ blogs = [k \in BlogIds |-> NoBlog]
  /\ breq = [r \in BlogReqIds |-> IdleBlogReq]

\* no event admin request yet
InitAdmin == ereq = [r \in AdminReqIds |-> IdleAdminReq]

\* no list request yet, over an empty collection
InitLists == docs = 0 /\ lreq = IdleListReq

\* an empty catalogue item for the runs that list nothing by filter
InitCatalogues ==
  /\ catalogue = [i \in ItemIds |->
                   [published |-> FALSE, eventType |-> "webinar", category |-> "tech",
                    featured |-> FALSE, upcoming |-> FALSE, matches |-> FALSE]]
  /\ qreq = IdleQueryReq

\* no login request yet
InitLogins == login = IdleLogin

\* no chat request yet
InitChats == chat = IdleChat /\ upstream = IdleUpstream /\ connected = TRUE

\* one stored event, published or not, with no registrations yet
Init ==
  /\ \E pub \in BOOLEAN, cap \in Capacities :
       events = [e \in EventIds |->
                  IF e = "e1" THEN PreSaveEvent(NewEvent(pub, cap), pub, 1) ELSE NoEvent]
  /\ registrations = {}
  /\ req = [r \in ReqIds |-> IdleReq]
  /\ InitContacts
  /\ InitSubscriptions
  /\ InitBlogs
  /\ InitAdmin
  /\ InitLists
  /\ InitChats
  /\ InitLogins
  /\ InitCatalogues

\* the steps every request takes after its first
Continue(r) ==
  \/ RegisterFindOne(r)
  \/ RegisterSaveRegistration(r)
  \/ RegisterSaveEvent(r)
  \/ DeleteDecrementEvent(r)
  \/ DeleteRemoveRegistration(r)

Next ==
  \E r \in ReqIds :
    \/ \E e \in EventIds, m \in RawEmails : RegisterFindEvent(r, e, m, MaxRequests)
    \/ \E id \in ReqIds : DeleteFindRegistration(r, id, MaxRequests)
    \/ Continue(r)

Spec == Init /\ [][Next]_vars

\* no other request is in flight
Alone(r) == \A q \in ReqIds \ {r} : req[q].pc \in {"idle", "done"}

NextSeq ==
  \E r \in ReqIds :
    \/ /\ Alone(r)
       /\ \E e \in EventIds, m \in SeqEmails : RegisterFindEvent(r, e, m, MaxSeqRequests)
    \/ /\ Alone(r)
       /\ \E id \in ReqIds : DeleteFindRegistration(r, id, MaxSeqRequests)
    \/ Continue(r)

SpecSeq == Init /\ [][NextSeq]_vars

\* the contact form alone: no event is stored
InitContact ==
  /\ events = [e \in EventIds |-> NoEvent]
  /\ registrations = {}
  /\ req = [r \in ReqIds |-> IdleReq]
  /\ InitContacts
  /\ InitSubscriptions
  /\ InitBlogs
  /\ InitAdmin
  /\ InitLists
  /\ InitChats
  /\ InitLogins
  /\ InitCatalogues

NextContact ==
  \E r \in ContactReqIds :
    \/ \E body \in CreateBodies : CreateContactSave(r, body)
    \/ \E ok \in BOOLEAN : CreateContactNotify(r, ok)
    \/ \E ok \in BOOLEAN : CreateContactConfirm(r, ok)
    \/ CreateContactMarkSent(r)
    \/ \E id \in TargetIds, body \in UpdateBodies : UpdateContactFind(r, id, body)
    \/ UpdateContactSave(r)

SpecContact == InitContact /\ [][NextContact]_vars

\* the subscription routes alone
NextSubscription ==
  \E r \in SubReqIds :
    \/ \E m \in SubscribeEmails : SubscribeFindOne(r, m)
    \/ SubscribeSave(r)
    \/ \E ok \in BOOLEAN : SubscribeWelcome(r, ok)
    \/ \E id \in SubTargetIds, reason \in Reasons : UnsubscribeFind(r, id, reason)
    \/ \E id \in SubTargetIds : ReactivateFind(r, id)
    \/ MethodSave(r)
    \/ \E id \in SubTargetIds : DeleteSubscription(r, id)

SpecSubscription == InitContact /\ [][NextSubscription]_vars

\* the blog routes alone: one blog is stored, published or not
InitBlog ==
  /\ events = [e \in EventIds |-> NoEvent]
  /\ registrations = {}
  /\ req = [r \in ReqIds |-> IdleReq]
  /\ InitContacts
  /\ InitSubscriptions
  /\ \E pub \in BOOLEAN :
       blogs = [k \in BlogIds |->
                 IF k = 1
                 THEN NewBlog(1, Body({"title", "slug", "published"},
                                      TitleAB, SlugAB, pub, 0, 0))
                 ELSE NoBlog]
  /\ breq = [r \in BlogReqIds |-> IdleBlogReq]
  /\ InitAdmin
  /\ InitLists
  /\ InitChats
  /\ InitLogins
  /\ InitCatalogues

NextBlog ==
  \E r \in BlogReqIds :
    \/ \E body \in BlogCreateBodies : CreateBlogCheck(r, body)
    \/ CreateBlogSave(r)
    \/ \E id \in BlogTargetIds, body \in BlogUpdateBodies : UpdateBlogFind(r, id, body)
    \/ UpdateBlogCheckSlug(r)
    \/ UpdateBlogSave(r)
    \/ \E slug \in BlogSlugs : GetBySlugFind(r, slug)
    \/ GetBySlugSave(r)
    \/ \E id \in BlogTargetIds : LikeFind(r, id)
    \/ LikeSave(r)

SpecBlog == InitBlog /\ [][NextBlog]_vars

\* the list routes alone, over a collection of any size the query matches
InitList ==
  /\ events = [e \in EventIds |-> NoEvent]
  /\ registrations = {}
  /\ req = [r \in ReqIds |-> IdleReq]
  /\ InitContacts
  /\ InitSubscriptions
  /\ InitBlogs
  /\ InitAdmin
  /\ docs \in 0..MaxDocs
  /\ lreq = IdleListReq
  /\ InitChats
  /\ InitLogins
  /\ InitCatalogues

NextList ==
  \/ \E route \in ListRoutes, page \in PageParams, limit \in LimitParams :
       ListFind(route, page, limit)
  \/ ListCount

SpecList == InitList /\ [][NextList]_vars

\* the steps of the chat handler
ChatStep ==
  \/ \E input \in ChatInputs : ChatStart(input)
  \/ \E outcome \in FetchOutcomes : ChatFetch(outcome)
  \/ ChatRead
  \/ ChatReadEnd
  \/ ChatReadFail

NextChat ==
  \/ \E input \in ChatInputs : ChatStart(input)
  \/ \E outcome \in FetchOutcomes : ChatFetch(outcome)
  \/ ChatRead
  \/ ChatReadEnd
  \/ ChatReadFail
  \/ \E line \in Lines : UpstreamSend(line)
  \/ UpstreamClose
  \/ UpstreamFail
  \/ ClientDisconnect
  \/ \E input \in LoginInputs, forwarded \in BOOLEAN : Login(input, forwarded)

SpecChat == InitContact /\ [][NextChat]_vars

\* the handler runs whenever it can: Node resumes it when its await settles;
\* nothing obliges the upstream to send, close or fail
SpecChatFair == SpecChat /\ WF_vars(ChatStep)

\* the filtered public lists alone, over every small collection
InitCatalogue ==
  /\ events = [e \in EventIds |-> NoEvent]
  /\ registrations = {}
  /\ req = [r \in ReqIds |-> IdleReq]
  /\ InitContacts
  /\ InitSubscriptions
  /\ InitBlogs
  /\ InitAdmin
  /\ InitLists
  /\ InitChats
  /\ InitLogins
  /\ catalogue \in [ItemIds -> Items]
  /\ qreq = IdleQueryReq

NextCatalogue == \E q \in Queries : FilteredList(q)

SpecCatalogue == InitCatalogue /\ [][NextCatalogue]_vars

\* the blog routes that ask for no token
NextBlogRead ==
  \E r \in BlogReqIds :
    \/ \E slug \in BlogSlugs : GetBySlugFind(r, slug)
    \/ GetBySlugSave(r)
    \/ \E id \in BlogTargetIds : GetById(r, id)
    \/ \E id \in BlogTargetIds : LikeFind(r, id)
    \/ LikeSave(r)

SpecBlogRead == InitBlog /\ [][NextBlogRead]_vars

\* registration requests and admin requests of the attendance runs
MaxAttendanceRequests == 2

\* registrations and the admin routes that touch events and registrations,
\* one request after the other
AdminTurn(r) ==
  /\ r <= MaxAttendanceRequests
  /\ \A q \in ReqIds : req[q].pc \in {"idle", "done"}

NextAttendance ==
  \/ \E r \in ReqIds :
       \/ /\ Alone(r)
          /\ \E e \in EventIds, m \in SeqEmails : RegisterFindEvent(r, e, m, MaxAttendanceRequests)
       \/ /\ Alone(r)
          /\ \E id \in ReqIds : DeleteFindRegistration(r, id, MaxAttendanceRequests)
       \/ Continue(r)
  \/ \E r \in AdminReqIds :
       \/ /\ AdminTurn(r)
          /\ \E id \in EventIds, n \in AttendeesInBody : UpdateEvent(r, id, AttendeesBody(n))
       \/ /\ AdminTurn(r)
          /\ \E id \in EventIds : DeleteEvent(r, id)
       \/ /\ AdminTurn(r)
          /\ \E id \in ReqIds : UpdateRegistrationStatus(r, id)

SpecAttendance == Init /\ [][NextAttendance]_vars

\* the event admin routes alone: one stored event that is published, was
\* published once, or never was; the clock has passed its publication
InitEvent ==
  /\ \E pub \in BOOLEAN, stamped \in BOOLEAN, price \in Prices :
       /\ pub => stamped
       /\ events = [e \in EventIds |->
                      IF e = "e1"
                      THEN [NewEvent(pub, 0) EXCEPT
                              !.publishedAt = IF stamped THEN 1 ELSE 0,
                              !.price = price, !.isFree = (price = 0)]
                      ELSE NoEvent]
  /\ registrations = {}
  /\ req = [r \in ReqIds |-> IdleReq]
  /\ contacts = [c \in ContactReqIds |-> NoContact]
  /\ creq = [r \in ContactReqIds |-> IdleContactReq]
  /\ now = 1
  /\ InitSubscriptions
  /\ InitBlogs
  /\ InitAdmin
  /\ InitLists
  /\ InitChats
  /\ InitLogins
  /\ InitCatalogues

NextEvent ==
  \E r \in AdminReqIds :
    \/ \E body \in EventCreateBodies : CreateEvent(r, body)
    \/ \E id \in EventIds, body \in EventUpdateBodies : UpdateEvent(r, id, body)
    \/ \E id \in EventIds : TogglePublishFind(r, id)
    \/ TogglePublishSave(r)

SpecEvent == InitEvent /\ [][NextEvent]_vars

(* ------------------------------ claims --------------------------------- *)

\* a register request that has been answered
RegisterDone(r) == req[r].op = "register" /\ req[r].pc = "done"

\* the register requests for event e answered 201
Accepted(e) == {r \in ReqIds : RegisterDone(r) /\ req[r].eventId = e /\ req[r].status = 201}

\* the stored registrations of event e
RegistrationsOf(e) == {g \in registrations : g.eventId = e}

\* C1: for every event with maxAttendees > 0, currentAttendees <= maxAttendees
\* in every reachable state, under any interleaving of register and
\* deleteRegistration requests.
C1_CapacityBound ==
  \A e \in EventIds :
    (events[e].exists /\ events[e].maxAttendees > 0)
      => events[e].currentAttendees <= events[e].maxAttendees

\* the race at the capacity boundary has happened: an event with room for one
\* holds two registrations, both requests having been answered 201
C1_Witness ==
  /\ events["e1"].maxAttendees = 1
  /\ Cardinality(Accepted("e1")) = 2
  /\ Cardinality(RegistrationsOf("e1")) = 2

\* the condition of C2 as the handler met it: the event it read is missing or
\* unpublished, the pair is already registered (found by findOne or refused by
\* the unique index), or the event it read is at capacity
RejectCondition(r) ==
  \/ ~req[r].event.exists
  \/ ~req[r].event.published
  \/ req[r].existingRegistration
  \/ req[r].code = 11000
  \/ (req[r].event.maxAttendees > 0
        /\ req[r].event.currentAttendees >= req[r].event.maxAttendees)

\* C2: a register request that meets a missing event, an unpublished event, an
\* existing registration of the same (eventId, email) or an event at capacity
\* is rejected (400/404), has written nothing to the store and has created no
\* registration.
C2_RejectedLeavesNoTrace ==
  \A r \in ReqIds :
    (RegisterDone(r) /\ isEmail(req[r].email) /\ RejectCondition(r))
      => /\ req[r].status \in {400, 404}
         /\ req[r].writes = 0
         /\ FindRegistrationById(r) = {}

\* one request was turned away by "Event is full" and another by the unique
\* index
C2_Witness ==
  \E r, q \in ReqIds :
    /\ RegisterDone(r) /\ req[r].message = "Event is full"
    /\ RegisterDone(q) /\ req[q].code = 11000

\* C3: after n register requests for one event have been accepted, in any
\* interleaving, currentAttendees is n higher than before them (no delete
\* request having been made, and no request being in flight).
C3_ExactIncrement ==
  (\A r \in ReqIds : req[r].pc \in {"idle", "done"} /\ req[r].op # "delete")
    => \A e \in EventIds :
         events[e].exists => events[e].currentAttendees = Cardinality(Accepted(e))

\* C4: currentAttendees >= 0 in every reachable state.
C4_NeverNegative == \A e \in EventIds : events[e].currentAttendees >= 0

\* C5: on a published event with maxAttendees = 1, requests served one after
\* the other: register a@x.com is accepted (currentAttendees = 1), register
\* b@x.com is rejected "Event is full", deleting the first registration brings
\* currentAttendees back to 0, and registering b@x.com again is accepted.
Served(r, op) == req[r].op = op /\ req[r].pc = "done"

\* request k is the last that has arrived
Last(k) == \A q \in ReqIds : q > k => req[q].pc = "idle"

Step1 == Served(1, "register") /\ req[1].eventId = "e1" /\ req[1].email = "a@x.com"

Step2 == Step1 /\ Served(2, "register") /\ req[2].eventId = "e1" /\ req[2].email = "b@x.com"

Step3 == Step2 /\ Served(3, "delete") /\ req[3].regId = 1

Step4 == Step3 /\ Served(4, "register") /\ req[4].eventId = "e1" /\ req[4].email = "b@x.com"

C5_FreedCapacityReused ==
  (events["e1"].published /\ events["e1"].maxAttendees = 1) =>
    /\ Step1 => /\ req[1].status = 201
                /\ Last(1) => events["e1"].currentAttendees = 1
    /\ Step2 => /\ req[2].status = 400 /\ req[2].message = "Event is full"
                /\ Last(2) => events["e1"].currentAttendees = 1
    /\ Step3 => /\ req[3].status = 200
                /\ Last(3) => events["e1"].currentAttendees = 0
    /\ Step4 => /\ req[4].status = 201
                /\ Last(4) => events["e1"].currentAttendees = 1

\* the whole example has been played
C5_Witness ==
  /\ events["e1"].published /\ events["e1"].maxAttendees = 1
  /\ Step4 /\ req[4].status = 201

\* C6: at most one EventRegistration per (eventId, email) pair in every
\* reachable state.
C6_UniquePair ==
  \A g, h \in registrations :
    (g.eventId = h.eventId /\ g.email = h.email) => g = h

\* two requests for one pair ran together: both passed findOne, one inserted
\* and the other's insert was refused by the unique index
C6_Witness ==
  \E r, q \in ReqIds :
    /\ RegisterDone(r) /\ req[r].code = 11000
    /\ req[q].op = "register" /\ req[q].eventId = req[r].eventId
    /\ req[q].email = req[r].email /\ FindRegistrationById(q) # {}

\* a contact request of this kind that has been answered
ContactServed(r, op) == creq[r].op = op /\ creq[r].pc = "done"

\* C7: every contact created through the create operation has status pending
\* right after its creation, whatever the request body carries.
C7_CreatedPending ==
  \A r \in ContactReqIds :
    (creq[r].op = "create" /\ creq[r].contact.exists)
      => creq[r].contact.status = "pending"

\* C8: after an update that sets status to review the stored contact has
\* respondedAt set, and after one that sets status to done it has completedAt
\* set.
C8_StatusStamped ==
  \A r \in ContactReqIds :
    (ContactServed(r, "update") /\ creq[r].status = 200)
      => /\ creq[r].body.status = "review" => contacts[creq[r].id].respondedAt # 0
         /\ creq[r].body.status = "done" => contacts[creq[r].id].completedAt # 0

\* C9: a PATCH that carries the status the stored contact already has, as a
\* repeat of the same PATCH does, leaves the contact's status, respondedAt and
\* completedAt as they were.
C9_RepeatedPatchIdempotent ==
  [][\A r \in ContactReqIds :
       (/\ creq[r].op = "update" /\ creq[r].pc = "save"
        /\ creq'[r].pc = "done"
        /\ creq[r].body.status = contacts[creq[r].id].status)
         => /\ contacts'[creq[r].id].status = contacts[creq[r].id].status
            /\ contacts'[creq[r].id].respondedAt = contacts[creq[r].id].respondedAt
            /\ contacts'[creq[r].id].completedAt = contacts[creq[r].id].completedAt]_vars

\* the same status PATCH has been served twice for one contact, the second
\* one having loaded the contact in the status the first one gave it
C9_Witness ==
  \E r, q \in ContactReqIds :
    /\ q < r
    /\ ContactServed(q, "update") /\ creq[q].status = 200
    /\ ContactServed(r, "update") /\ creq[r].status = 200
    /\ creq[q].id = creq[r].id
    /\ creq[q].body = creq[r].body
    /\ creq[r].body.status # ""
    /\ creq[q].loaded.status # creq[q].body.status
    /\ creq[r].loaded.status = creq[r].body.status

\* C10: a valid contact create whose contact has been saved is answered with
\* its success response (201) whether the emails are sent or fail.
C10_EmailFailureNotSurfaced ==
  \A r \in ContactReqIds :
    (ContactServed(r, "create") /\ creq[r].contact.exists)
      => creq[r].status = 201

\* the fields of a contact form that the claim calls invalid: a missing name,
\* subject or message, a missing or malformed email
InvalidFields(form) ==
  {f \in {"name", "subject", "message"} : form[f] = ""}
    \cup (IF form.email \in {"", "not-an-email"} THEN {"email"} ELSE {})

\* C11: a contact create request with a missing name, subject or message, or a
\* missing or malformed email, is answered 400 with an error entry for each
\* such field, persists no contact and sends no email.
C11_InvalidContactRejected ==
  /\ \A r \in ContactReqIds :
       (creq[r].op = "create" /\ InvalidFields(creq[r].form) # {})
         => /\ creq[r].pc = "done" /\ creq[r].status = 400
            /\ creq[r].errors = InvalidFields(creq[r].form)
            /\ creq[r].id = 0 /\ ~creq[r].contact.exists
            /\ creq[r].mails = 0
  /\ Cardinality({c \in ContactReqIds : contacts[c].exists})
       = Cardinality({r \in ContactReqIds : creq[r].op = "create" /\ creq[r].id # 0})

\* a form without email has been turned away with an entry for the email
\* field, and a form with a malformed email and no name, subject or message
\* with an entry for each of the four fields
C11_Witness ==
  \E r, q \in ContactReqIds :
    /\ ContactServed(r, "create") /\ creq[r].form.email = ""
    /\ creq[r].status = 400 /\ "email" \in creq[r].errors
    /\ ContactServed(q, "create") /\ creq[q].form.email = "not-an-email"
    /\ creq[q].status = 400
    /\ creq[q].errors = {"name", "email", "subject", "message"}

\* the stored subscriptions
Subscribed == {k \in SubReqIds : subscriptions[k].exists}

\* the lower-cased form of an address, over the modelled addresses
Normalized(m) == IF m = "A@X.com" THEN "a@x.com" ELSE m

\* a subscription request that has been answered
SubServed(r, op) == sreq[r].op = op /\ sreq[r].pc = "done"

\* C12: at any time at most one Subscription record exists for a given
\* lower-cased email, whatever the interleaving of subscribe, unsubscribe,
\* reactivate and delete requests.
C12_OneRecordPerEmail ==
  \A j, k \in Subscribed :
    Normalized(subscriptions[j].email) = Normalized(subscriptions[k].email) => j = k

\* two subscribe requests for the same address in two spellings found no
\* record; one stored its document, the index refused the other's insert
C12_Witness ==
  \E r, q \in SubReqIds :
    /\ sreq[r].op = "subscribe" /\ sreq[r].email = "a@x.com" /\ sreq[r].writes = 1
    /\ sreq[r].isNew /\ subscriptions[r].exists
    /\ SubServed(q, "subscribe") /\ sreq[q].email = "A@X.com" /\ sreq[q].isNew
    /\ sreq[q].status = 500 /\ sreq[q].writes = 0

\* C13: a subscribe request for an address whose lower-cased form has an
\* active subscription is answered 409 at once, changes no record and sends
\* no welcome email.
C13_ActiveConflict ==
  [][\A r \in SubReqIds :
       ( /\ sreq[r].pc = "idle" /\ sreq'[r].op = "subscribe"
         /\ \E k \in Subscribed :
              /\ subscriptions[k].status = "active"
              /\ subscriptions[k].email = Normalized(sreq'[r].email) )
         => /\ sreq'[r].pc = "done" /\ sreq'[r].status = 409
            /\ sreq'[r].writes = 0 /\ sreq'[r].mails = 0
            /\ subscriptions' = subscriptions]_vars

\* the address was subscribed in lower case, and a later request spelling it
\* in upper case was answered 409 while the record stayed active
C13_Witness ==
  \E r, q \in SubReqIds :
    /\ r < q
    /\ SubServed(r, "subscribe") /\ sreq[r].status = 201 /\ sreq[r].email = "a@x.com"
    /\ SubServed(q, "subscribe") /\ sreq[q].status = 409 /\ sreq[q].email = "A@X.com"
    /\ sreq[q].loaded.id = sreq[r].id /\ sreq[q].mails = 0
    /\ subscriptions[sreq[r].id].status = "active"

\* C14: a subscribe request that finds the unsubscribed record of its address
\* reactivates that record in place: same id, status active, unsubscribedAt and
\* unsubscribedReason cleared, and no record is added.
C14_ResubscribeReactivates ==
  [][\A r \in SubReqIds :
       ( /\ sreq[r].op = "subscribe" /\ sreq[r].pc = "save" /\ sreq'[r].pc # "save"
         /\ sreq[r].loaded.exists /\ sreq[r].loaded.status = "unsubscribed"
         /\ sreq[r].loaded.email = Normalized(sreq[r].email)
         /\ subscriptions[sreq[r].loaded.id] = sreq[r].loaded )
         => /\ subscriptions'[sreq[r].loaded.id] =
                 [sreq[r].loaded EXCEPT !.status = "active", !.unsubscribedAt = 0,
                                        !.unsubscribedReason = ""]
            /\ {k \in SubReqIds : subscriptions'[k].exists} = Subscribed
            /\ sreq'[r].pc = "welcome"]_vars

\* subscribe, unsubscribe with a reason, subscribe again in another spelling:
\* the one record is active again, under its first id, with date and reason gone
C14_Witness ==
  \E r, u, q \in SubReqIds :
    /\ r < u /\ u < q
    /\ SubServed(r, "subscribe") /\ sreq[r].status = 201 /\ sreq[r].isNew
    /\ SubServed(u, "unsubscribe") /\ sreq[u].status = 200 /\ sreq[u].id = sreq[r].id
    /\ sreq[u].subscription.unsubscribedReason # ""
    /\ SubServed(q, "subscribe") /\ sreq[q].status = 201
    /\ sreq[q].loaded.status = "unsubscribed" /\ sreq[q].loaded.unsubscribedAt # 0
    /\ sreq[q].loaded.unsubscribedReason # ""
    /\ sreq[q].id = sreq[r].id
    /\ Subscribed = {sreq[r].id}
    /\ subscriptions[sreq[r].id].status = "active"
    /\ subscriptions[sreq[r].id].unsubscribedAt = 0
    /\ subscriptions[sreq[r].id].unsubscribedReason = ""

\* a blog request that has been answered
BlogServed(r, op) == breq[r].op = op /\ breq[r].pc = "done"

\* a title lower-cased, every maximal run of characters that are neither
\* letters nor digits replaced by one hyphen, no hyphen at either end
HyphenatedTitle(title) ==
  TrimRight(TrimLeft(RunsToHyphen(
    [i \in 1..Len(title) |->
       IF LowerChar(title[i]) \in Letters THEN LowerChar(title[i]) ELSE "-"],
    "-")))

\* C15: a blog created from a valid body without a slug is stored (201) with
\* the slug made from its title: lower-cased, every maximal run of
\* non-alphanumeric characters replaced by one hyphen, hyphens trimmed.
C15_SlugDerivedFromTitle ==
  \A r \in BlogReqIds :
    ( /\ BlogServed(r, "create")
      /\ "title" \in breq[r].body.fields /\ breq[r].body.title # EmptyString
      /\ "slug" \notin breq[r].body.fields )
      => /\ breq[r].status = 201
         /\ breq[r].blog.slug = HyphenatedTitle(breq[r].body.title)

\* C16: a blog create or update that runs into the slug of another blog, in
\* its lookup or at the unique index, is answered with a conflict (400 or 409)
\* and writes nothing; no two blogs share a slug.
C16_SlugConflictRejected ==
  /\ \A r \in BlogReqIds :
       breq[r].collided => breq[r].status \in {400, 409} /\ breq[r].writes = 0
  /\ \A j, k \in BlogIds :
       (blogs[j].exists /\ blogs[k].exists /\ blogs[j].slug = blogs[k].slug) => j = k

OnlyReadsAndLikes ==
  \A r \in BlogReqIds :
    breq[r].pc \in {"idle", "done"} /\ breq[r].op \in {"idle", "view", "like"}

\* C18: once n get-by-slug requests on a blog have been served its views are
\* n higher, and once n likes have been served its likes are n higher,
\* whatever the interleaving.
C18_CountersCountEveryCall ==
  OnlyReadsAndLikes =>
    \A k \in BlogIds :
      blogs[k].exists =>
        /\ blogs[k].views =
             Cardinality({r \in BlogReqIds : BlogServed(r, "view")
                            /\ breq[r].status = 200 /\ breq[r].id = k})
        /\ blogs[k].likes =
             Cardinality({r \in BlogReqIds : BlogServed(r, "like")
                            /\ breq[r].status = 200 /\ breq[r].id = k})

\* C19: views and likes never decrease and change only in the save of a
\* get-by-slug or of a like; a created blog starts with both at 0 and an
\* update leaves both as they are, whatever the body carries.
C19_CountersOnlyCount ==
  [][\A k \in BlogIds :
       /\ (~blogs[k].exists /\ blogs'[k].exists)
            => blogs'[k].views = 0 /\ blogs'[k].likes = 0
       /\ blogs[k].exists
            => /\ blogs'[k].views >= blogs[k].views
               /\ blogs'[k].likes >= blogs[k].likes
               /\ blogs'[k].views # blogs[k].views
                    => \E r \in BlogReqIds :
                         breq[r].op = "view" /\ breq[r].pc = "save" /\ breq'[r].pc = "done"
               /\ blogs'[k].likes # blogs[k].likes
                    => \E r \in BlogReqIds :
                         breq[r].op = "like" /\ breq[r].pc = "save" /\ breq'[r].pc = "done"
    ]_vars

\* an event admin request that has been answered
AdminServed(r, op) == ereq[r].op = op /\ ereq[r].pc = "done"

\* C20: in every state a published event has publishedAt set, and a served
\* togglePublish on an event whose publishedAt was set has left it unchanged.
C20_PublishedAtStamped ==
  /\ \A e \in EventIds :
       (events[e].exists /\ events[e].published) => events[e].publishedAt # 0
  /\ \A r \in AdminReqIds :
       (AdminServed(r, "toggle") /\ ereq[r].status = 200 /\ ereq[r].loaded.publishedAt # 0)
         => ereq[r].event.publishedAt = ereq[r].loaded.publishedAt

\* C21: in every state a stored event's isFree equals (price = 0), after any
\* sequence of event create and update requests.
C21_IsFreeFollowsPrice ==
  \A e \in EventIds :
    events[e].exists => (events[e].isFree <=> (events[e].price = 0))

\* the smaller and the larger of two numbers
Min(a, b) == IF a < b THEN a ELSE b

Max(a, b) == IF a > b THEN a ELSE b

\* ceil(n / l) as the least k with k * l >= n
CeilOf(n, l) == CHOOSE k \in 0..n : k * l >= n /\ \A j \in 0..n : j * l >= n => k <= j

\* the answer to the list request is the page the claim describes
PageAsClaimed ==
  /\ lreq.status = 200
  /\ Cardinality(lreq.items)
       = Min(lreq.limit.value, Max(0, docs - (lreq.page.value - 1) * lreq.limit.value))
  /\ lreq.total = docs
  /\ lreq.pages = CeilOf(docs, lreq.limit.value)

C23_StreamEventuallyEnds ==
  (/\ chat.sse
   /\ \/ chat.sawDone
      \/ chat.outcome \in {"notOk", "notOkTextFails"}
      \/ chat.pc = "read" /\ upstream.failed) ~> chat.ended

\* the chat request was answered by an event stream that came to its end
\* without an error event
CompletedWithoutError ==
  /\ chat.sse /\ chat.ended /\ chat.json = 0
  /\ \A i \in 1..Len(chat.events) : chat.events[i] # "error"

\* C24: every chat stream that completes without error is zero or more
\* content events followed by one done event: done is emitted exactly once
\* and no event follows it.
C24_DoneOnceAndLast ==
  CompletedWithoutError =>
    /\ Len(chat.events) >= 1
    /\ chat.events[Len(chat.events)] = "done"
    /\ \A i \in 1..(Len(chat.events) - 1) : chat.events[i] = "content"

\* C25: once the client has disconnected, the handler reads nothing more
\* from the upstream and writes no further event.
C25_DisconnectCancelsRelay ==
  [][~connected => /\ chat'.reads = chat.reads
                   /\ chat'.events = chat.events]_vars

\* the chat request met a failure of the upstream AI call
ChatDependencyFailed ==
  \/ chat.outcome \in {"notOk", "notOkTextFails", "noBody", "throws"}
  \/ chat.outcome = "ok" /\ upstream.failed

\* the login request met a failure of password comparison or token signing
LoginDependencyFailed == login.input \in {"compareThrows", "signThrows"}

\* C26: a request whose dependency failed is answered, once its handler is
\* over, by exactly one response, a JSON envelope with a boolean success:
\* the chat request on a failure of the upstream AI call, the login request
\* on a failure of token signing.
C26_OneEnvelopePerFailure ==
  /\ (chat.pc = "done" /\ ChatDependencyFailed) =>
       (chat.json = 1 /\ chat.events = << >>)
  /\ (login.pc # "idle" /\ LoginDependencyFailed) =>
       (login.answers = 1 /\ login.envelope)

\* no registration request and no admin request is being served
NoRequestInFlight ==
  /\ \A r \in ReqIds : req[r].pc \in {"idle", "done"}
  /\ \A r \in AdminReqIds : ereq[r].pc \in {"idle", "done"}

\* C27: whenever no request is in flight, the currentAttendees of every
\* stored event is the number of registrations that reference the event.
C27_AttendeesMatchRegistrations ==
  NoRequestInFlight =>
    \A e \in EventIds :
      events[e].exists => events[e].currentAttendees = Cardinality(RegistrationsOf(e))

\* the answered subscribe requests for one lower-cased address
SubscribesFor(e) ==
  {r \in SubReqIds : SubServed(r, "subscribe") /\ isEmail(sreq[r].email)
                     /\ Normalized(sreq[r].email) = e}

\* every request launched so far is a subscribe
OnlySubscribes == \A r \in SubReqIds : sreq[r].op \in {"idle", "subscribe"}

\* the request stored its document and then failed to send the welcome email
WelcomeFailed(r) == sreq[r].status = 500 /\ sreq[r].writes = 1

\* C28: of the subscribe requests for one lower-cased address, overlapping
\* or not, at most one is answered with success, at most one welcome email
\* is sent, and every other one is answered with the conflict 409.
C28_OneSubscribeWins ==
  OnlySubscribes =>
    \A e \in {Normalized(m) : m \in SubscribeEmails} :
      /\ Cardinality({r \in SubscribesFor(e) : sreq[r].status = 201}) <= 1
      /\ Cardinality({r \in SubscribesFor(e) : sreq[r].mails > 0}) <= 1
      /\ \A r \in SubscribesFor(e) :
           sreq[r].status \in {201, 409} \/ WelcomeFailed(r)

\* C29: a request without admin token is never answered with an unpublished
\* blog, and the views of an unpublished blog stay what they were (0 for the
\* blog of the initial state).
C29_UnpublishedHidden ==
  /\ \A r \in BlogReqIds :
       (breq[r].pc = "done" /\ breq[r].op \in {"view", "getById"} /\ breq[r].status = 200)
         => breq[r].blog.published
  /\ \A k \in BlogIds :
       (blogs[k].exists /\ ~blogs[k].published) => blogs[k].views = 0

\* the filters a request supplied, among those its route supports, all hold
\* of a document
SatisfiesSupplied(item, q) ==
  /\ item.published
  /\ q.category # "" => item.category = q.category
  /\ q.featured # "" => item.featured = (q.featured = "true")
  /\ q.search # "" => item.matches
  /\ q.route = "events" =>
       /\ q.eventType # "" => item.eventType = q.eventType
       /\ q.when = "upcoming" => item.upcoming
       /\ q.when = "past" => ~item.upcoming

\* C30: every item a public list returns satisfies every filter the request
\* supplied, search together with the others included.
C30_ItemsSatisfyAllFilters ==
  qreq.pc = "done" =>
    \A i \in qreq.items : SatisfiesSupplied(catalogue[i], qreq.query)
====
